---- MODULE Spec2Model ----
(***************************************************************************)
(* ts-stick: on-screen input controls (button, d-pad, joystick).           *)
(*                                                                         *)
(* Every control is a state machine over the pointer events the browser    *)
(* delivers to its listeners.  A control's fields are one record-valued    *)
(* variable named after the class; `calls` is the log of the callback      *)
(* invocations the handlers make, `lastEvent` the event handled last and   *)
(* `nEvents` the number of events delivered so far; `fired` is the number  *)
(* of callbacks the last event invoked.                                    *)
(*                                                                         *)
(* Numbers.  Client coordinates and rectangles are integers (CSS pixels).  *)
(* A displacement from the rectangle's center is kept doubled              *)
(* (2*clientX - (2*left + width)) so that a center on a half pixel stays   *)
(* exact.  Angles are in hundredths of a degree, joystick outputs in       *)
(* hundredths (the two decimals toFixed(2) keeps).                         *)
(***************************************************************************)
EXTENDS Integers, Sequences, FiniteSets, TLC

VARIABLES button, dpad, joystick, slider, sibling, calls, lastEvent, nEvents, fired, probe

vars == <<button, dpad, joystick, slider, sibling, calls, lastEvent, nEvents, fired, probe>>

\* Bounds of the model.
MaxEvents == 3
MaxPointers == 2

PointerIds == 1..MaxPointers

\* A control that was not constructed on the page.
Absent == [absent |-> TRUE]

NoEvent == [type |-> "none"]
NoProbe == [fn |-> "none"]

\* A field that has not been assigned: the baseRect of a control before its
\* first updateContainerRectangle().
Undefined == [undefined |-> TRUE]

Abs(n) == IF n < 0 THEN -n ELSE n
Min(a, b) == IF a < b THEN a ELSE b
Max(a, b) == IF a > b THEN a ELSE b
Sign(n) == IF n > 0 THEN 1 ELSE IF n < 0 THEN -1 ELSE 0

\* A callback invocation, as the log records it: the control, the field
\* invoked, the function the field holds and the payload.
Call(ctl, cb, fn, args) == [ctl |-> ctl, cb |-> cb, fn |-> fn, args |-> args]

(***************************************************************************)
(* ButtonController                                                        *)
(***************************************************************************)

\* options.onPressCallback / options.onReleaseCallback: a function of the
\* user ("user") or left out ("none").
ButtonOptionSet == [onPressCallback : {"user", "none"}, onReleaseCallback : {"user", "none"}]

\* constructor: a callback of the options is kept, a missing one is replaced
\* by the default logger.
ButtonController(options) ==
    [ isPressed |-> FALSE,
      onPressCallback |-> IF options.onPressCallback = "user" THEN "user" ELSE "default",
      onReleaseCallback |-> IF options.onReleaseCallback = "user" THEN "user" ELSE "default" ]

\* The pointer events the container's listeners receive: any pointer, on the
\* button's own region or elsewhere in the container.
ButtonEvent(type, pointerId, onBase) == [type |-> type, pointerId |-> pointerId, onBase |-> onBase]

\* onButtonDown as a bug would have it: no early return when already pressed.
onButtonDownNoGuard ==
    /\ button' = [button EXCEPT !.isPressed = TRUE]
    /\ calls' = Append(calls, Call("button", "onPressCallback", button.onPressCallback, <<>>))

\* onButtonDown(): the state change and the callback of one pointerdown.
onButtonDown ==
    IF button.isPressed
    THEN UNCHANGED <<button, calls>>
    ELSE /\ button' = [button EXCEPT !.isPressed = TRUE]
         /\ calls' = Append(calls, Call("button", "onPressCallback", button.onPressCallback, <<>>))

\* onButtonUp as a bug would have it: no early return when already released.
onButtonUpNoGuard ==
    /\ button' = [button EXCEPT !.isPressed = FALSE]
    /\ calls' = Append(calls, Call("button", "onReleaseCallback", button.onReleaseCallback, <<>>))

\* onButtonUp(): the state change and the callback of one pointerup.
onButtonUp ==
    IF ~button.isPressed
    THEN UNCHANGED <<button, calls>>
    ELSE /\ button' = [button EXCEPT !.isPressed = FALSE]
         /\ calls' = Append(calls, Call("button", "onReleaseCallback", button.onReleaseCallback, <<>>))

\* container "pointerdown" listener.
ButtonPointerDown ==
    /\ nEvents < MaxEvents
    /\ \E p \in PointerIds, onBase \in BOOLEAN :
          lastEvent' = ButtonEvent("pointerdown", p, onBase)
    /\ onButtonDown
    /\ nEvents' = nEvents + 1
    /\ fired' = Len(calls') - Len(calls)
    /\ UNCHANGED <<dpad, joystick, slider, sibling, probe>>

\* A "pointerup" listener as it would be on the button's own element: a
\* pointer-up elsewhere in the container is not received.
ButtonPointerUpOnBase ==
    /\ nEvents < MaxEvents
    /\ \E p \in PointerIds, onBase \in BOOLEAN :
          lastEvent' = ButtonEvent("pointerup", p, onBase)
    /\ IF lastEvent'.onBase THEN onButtonUp ELSE UNCHANGED <<button, calls>>
    /\ nEvents' = nEvents + 1
    /\ fired' = Len(calls') - Len(calls)
    /\ UNCHANGED <<dpad, joystick, slider, sibling, probe>>

\* container "pointerup" listener.
ButtonPointerUp ==
    /\ nEvents < MaxEvents
    /\ \E p \in PointerIds, onBase \in BOOLEAN :
          lastEvent' = ButtonEvent("pointerup", p, onBase)
    /\ onButtonUp
    /\ nEvents' = nEvents + 1
    /\ fired' = Len(calls') - Len(calls)
    /\ UNCHANGED <<dpad, joystick, slider, sibling, probe>>

InitButton ==
    /\ \E o \in ButtonOptionSet : button = ButtonController(o)
    /\ dpad = Absent
    /\ joystick = Absent
    /\ calls = <<>>
    /\ sibling = Absent
    /\ slider = Absent
    /\ lastEvent = NoEvent
    /\ nEvents = 0
    /\ fired = 0
    /\ probe = NoProbe

NextButton == ButtonPointerDown \/ ButtonPointerUp

SpecButton == InitButton /\ [][NextButton]_vars

\* The number of invocations of the callback field cb the log holds.
Count(cb) == Cardinality({i \in DOMAIN calls : calls[i].cb = cb})

\* C1: a pointer-down while the button is pressed changes no state and fires
\* nothing, so of consecutive pointer-downs with no pointer-up between them only
\* the first fires onPress, and it fires it exactly once.
C1_PressOnce ==
    [][ lastEvent'.type = "pointerdown" =>
          /\ button.isPressed => (button' = button /\ calls' = calls)
          /\ lastEvent.type = "pointerdown" => calls' = calls
          /\ ~button.isPressed =>
                /\ button'.isPressed
                /\ calls' = Append(calls, Call("button", "onPressCallback", button.onPressCallback, <<>>))
      ]_vars

\* C1 witness: onPress was fired, no pointer-up followed (the button is still
\* pressed), and a further pointer-down has just been handled and fired nothing.
C1_Witness ==
    /\ lastEvent.type = "pointerdown"
    /\ fired = 0
    /\ button.isPressed
    /\ Count("onPressCallback") = 1
    /\ Count("onReleaseCallback") = 0
    /\ nEvents = 2

\* A pointer-up while released is a no-op; otherwise it releases and fires
\* onRelease once.
UpStep ==
    lastEvent'.type = "pointerup" =>
       /\ ~button.isPressed => (button' = button /\ calls' = calls)
       /\ button.isPressed =>
             /\ ~button'.isPressed
             /\ calls' = Append(calls, Call("button", "onReleaseCallback", button.onReleaseCallback, <<>>))

\* The log alternates onPress, onRelease, onPress, ... starting with onPress.
Alternates ==
    \A i \in DOMAIN calls :
       calls[i].cb = IF i % 2 = 1 THEN "onPressCallback" ELSE "onReleaseCallback"

\* C2: pointer-up is a no-op while released and fires onRelease once while
\* pressed; the onPress and onRelease calls alternate starting with onPress, and
\* #onPress - #onRelease is 1 exactly when isPressed and 0 otherwise.
C2_Alternation ==
    /\ [](/\ Alternates
          /\ Count("onPressCallback") - Count("onReleaseCallback") = (IF button.isPressed THEN 1 ELSE 0))
    /\ [][UpStep]_vars

\* C2 witness: down, up, up: a press and a release were fired, and the second
\* pointer-up, received while released, fired nothing.
C2_Witness ==
    /\ lastEvent.type = "pointerup"
    /\ fired = 0
    /\ ~button.isPressed
    /\ Len(calls) = 2
    /\ nEvents = 3

(***************************************************************************)
(* DpadController: geometry                                                *)
(***************************************************************************)

\* centerRadiusThreshold default (0.25), as a percentage.
DefaultCenterThreshold == 25

\* Math.cos / Math.sin of a multiple of 90 degrees.  The model covers the
\* rotations 0, 90, 180 and 270, for which the rotation of an integer
\* displacement is again an integer displacement.
NormDeg(d) == ((d % 360) + 360) % 360
CosDeg(d) == CASE NormDeg(d) = 0 -> 1 [] NormDeg(d) = 90 -> 0 [] NormDeg(d) = 180 -> -1 [] NormDeg(d) = 270 -> 0
SinDeg(d) == CASE NormDeg(d) = 0 -> 0 [] NormDeg(d) = 90 -> 1 [] NormDeg(d) = 180 -> 0 [] NormDeg(d) = 270 -> -1

\* The doubled displacement of a client position from the center of rect:
\* 2 * (clientX - (rect.left + rect.width / 2)), and the same vertically.
Displacement2(clientX, clientY, rect) ==
    << 2 * clientX - (2 * rect.left + rect.width),
       2 * clientY - (2 * rect.top + rect.height) >>

\* The rotation by -rotate degrees (skipped for rotate = 0).
InverseRotate(x, y, rotate) ==
    IF rotate # 0
    THEN << x * CosDeg(-rotate) - y * SinDeg(-rotate),
            x * SinDeg(-rotate) + y * CosDeg(-rotate) >>
    ELSE << x, y >>

\* atan2(v, u) in hundredths of a degree for u > 0, v > 0.  An integer point
\* lies on a multiple of 45 degrees or strictly between two multiples of 22.5
\* degrees (tan 22.5 = sqrt(2) - 1 is irrational); a point strictly between is
\* given the middle of its 22.5-degree cell, which compares with every
\* multiple of 22.5 degrees as the exact angle does.
Atan2Quadrant(v, u) ==
    IF (v + u) * (v + u) < 2 * u * u THEN 1125
    ELSE IF v < u THEN 3375
    ELSE IF v = u THEN 4500
    ELSE IF (v - u) * (v - u) < 2 * u * u THEN 5625
    ELSE 7875

\* atan2(v, u) in hundredths of a degree for v > 0.
Atan2Upper(v, u) ==
    IF u > 0 THEN Atan2Quadrant(v, u)
    ELSE IF u = 0 THEN 9000
    ELSE 18000 - Atan2Quadrant(v, -u)

\* (Math.atan2(-y, x) * 180) / Math.PI in hundredths of a degree, for the
\* displacement (x, y) after the rotation by -rotate, given exactly.
\*
\* A point straight to the left (y = 0, x < 0).  Without a rotation y is the
\* zero, the first argument the negative zero, and the angle -180 degrees.
\* With a rotation of 90, 180 or 270 degrees the double y1 is not zero: the
\* sine or cosine whose exact value is 0 leaves a residue of the sign of x, so
\* y1 is negative, -y1 positive, and the angle +180 degrees.
\*
\* The very center (x = 0, y = 0).  The rotation by 270 degrees leaves x as
\* the negative zero (0 * cos - 0 * sin with sin = 1), and atan2(-0, -0) is
\* -PI; the other rotations leave the positive zero, and atan2(-0, 0) is -0.
AngleOf(x, y, rotate) ==
    IF y < 0 THEN Atan2Upper(-y, x)
    ELSE IF y > 0 THEN -Atan2Upper(y, x)
    ELSE IF x < 0 THEN (IF rotate = 0 THEN -18000 ELSE 18000)
    ELSE IF x = 0 /\ rotate = 270 THEN -18000
    ELSE 0

Directions ==
    {"center", "up", "down", "left", "right", "up-right", "down-right", "up-left", "down-left"}

\* The sector conditions as a bug would have them: the lower boundary inclusive.
InSectorLowerInclusive(direction, angle) ==
    CASE direction = "right" -> angle >= -2250 /\ angle < 2250
      [] direction = "up-right" -> angle >= 2250 /\ angle < 6750
      [] direction = "up" -> angle >= 6750 /\ angle < 11250
      [] direction = "up-left" -> angle >= 11250 /\ angle < 15750
      [] direction = "left" -> angle >= 15750 \/ angle < -15750
      [] direction = "down-left" -> angle >= -15750 /\ angle < -11250
      [] direction = "down" -> angle >= -11250 /\ angle < -6750
      [] direction = "down-right" -> angle >= -6750 /\ angle < -2250
      [] OTHER -> FALSE

\* The sector conditions with a slip in one boundary (76.5 for 67.5), which
\* leaves a gap between "up-right" and "up".
InSectorGap(direction, angle) ==
    CASE direction = "right" -> angle > -2250 /\ angle <= 2250
      [] direction = "up-right" -> angle > 2250 /\ angle <= 6750
      [] direction = "up" -> angle > 7650 /\ angle <= 11250
      [] direction = "up-left" -> angle > 11250 /\ angle <= 15750
      [] direction = "left" -> angle > 15750 \/ angle <= -15750
      [] direction = "down-left" -> angle > -15750 /\ angle <= -11250
      [] direction = "down" -> angle > -11250 /\ angle <= -6750
      [] direction = "down-right" -> angle > -6750 /\ angle <= -2250
      [] OTHER -> FALSE

\* The condition the chain tests for each direction (angle in hundredths of a
\* degree); no condition yields "center".
InSector(direction, angle) ==
    CASE direction = "right" -> angle > -2250 /\ angle <= 2250
      [] direction = "up-right" -> angle > 2250 /\ angle <= 6750
      [] direction = "up" -> angle > 6750 /\ angle <= 11250
      [] direction = "up-left" -> angle > 11250 /\ angle <= 15750
      [] direction = "left" -> angle > 15750 \/ angle <= -15750
      [] direction = "down-left" -> angle > -15750 /\ angle <= -11250
      [] direction = "down" -> angle > -11250 /\ angle <= -6750
      [] direction = "down-right" -> angle > -6750 /\ angle <= -2250
      [] OTHER -> FALSE

\* The if / else-if chain over the angle, in the order of the code; `direction`
\* keeps its initial value "center" when no branch is taken.
DirectionOfAngle(angle) ==
    IF InSector("right", angle) THEN "right"
    ELSE IF InSector("up-right", angle) THEN "up-right"
    ELSE IF InSector("up", angle) THEN "up"
    ELSE IF InSector("up-left", angle) THEN "up-left"
    ELSE IF InSector("left", angle) THEN "left"
    ELSE IF InSector("down-left", angle) THEN "down-left"
    ELSE IF InSector("down", angle) THEN "down"
    ELSE IF InSector("down-right", angle) THEN "down-right"
    ELSE "center"

\* floor(log2(num / den)) for num > 0, den > 0.
RECURSIVE FloorLog2(_, _)
FloorLog2(num, den) ==
    IF num >= 2 * den THEN 1 + FloorLog2(num, 2 * den)
    ELSE IF num < den THEN FloorLog2(2 * num, den) - 1
    ELSE 0

\* 2^k, and 2^k modulo n.
RECURSIVE Pow2(_)
Pow2(k) == IF k = 0 THEN 1 ELSE 2 * Pow2(k - 1)
RECURSIVE Pow2Mod(_, _)
Pow2Mod(k, n) == IF k = 0 THEN 1 % n ELSE (2 * Pow2Mod(k - 1, n)) % n

\* The side on which the double (m / 2) * (p / 100) lies of the exact product
\* m * p / 200: -1 below, 0 equal, 1 above.  The literal p / 100 is the nearest
\* double T * 2^(a - 52) with a = floor(log2(p / 100)); rho = 100 * T - p *
\* 2^(52 - a) is its rounding error.  The product m * T has L = j - a + 1 bits
\* more than a double holds (j = floor(log2(m * p / 200))); its low bits follow
\* from T = (rho / 4) / 25 modulo 2^(L + 1), and the product is rounded to the
\* nearest double, a tie going to the even one.
RoundingSign(m, p) ==
    IF m = 0 \/ p = 0 THEN 0
    ELSE LET ap == Abs(p)
             a == FloorLog2(ap, 100)
             u == (ap * Pow2Mod(52 - a, 100)) % 100
             rho == IF u < 50 THEN -u ELSE 100 - u
             L == FloorLog2(m * ap, 200) - a + 1
             modulus == Pow2(L + 1)
             inverse25 == CHOOSE i \in 0..(modulus - 1) : (25 * i) % modulus = 1 % modulus
             Tlow == (inverse25 * ((rho \div 4) % modulus)) % modulus
             Mlow == (m * Tlow) % modulus
             r == Mlow % Pow2(L)
             half == Pow2(L) \div 2
             adj == IF L = 0 THEN 0
                    ELSE IF r < half THEN -r
                    ELSE IF r > half THEN Pow2(L) - r
                    ELSE IF (Mlow \div Pow2(L)) % 2 = 1 THEN half ELSE -half
         IN  Sign(p) * Sign(100 * adj + m * rho)

\* The double a control holds before any rectangle is read: 0.
ZeroDistance == [px200 |-> 0, rounding |-> 0]

\* (Math.min(width, height) / 2) * centerThreshold (the threshold is a
\* percentage).  The double is given by the exact product in 1/200 pixel
\* (px200) and by the side on which the double lies of it (rounding: -1 below,
\* 0 equal, 1 above); when the exact product is a double itself, the double is
\* that value or the double next to it.
InputRegisterDistance(rect, centerThreshold) ==
    [ px200 |-> Min(rect.width, rect.height) * centerThreshold,
      rounding |-> RoundingSign(Min(rect.width, rect.height), centerThreshold) ]

\* centerDistance > inputRegisterDistance off the dead-zone circle, for the
\* doubled displacement (x2, y2): sqrt(x2^2 + y2^2) / 2 > px200 / 200.  The two
\* sides differ by far more than the doubles' rounding, so exact arithmetic
\* decides.
Exceeds(x2, y2, inputRegisterDistance) ==
    \/ inputRegisterDistance.px200 < 0
    \/ 10000 * (x2 * x2 + y2 * y2)
          > inputRegisterDistance.px200 * inputRegisterDistance.px200

\* The largest power of two that is at most n (n >= 1).
RECURSIVE Pow2Floor(_)
Pow2Floor(n) == IF n < 2 THEN 1 ELSE 2 * Pow2Floor(n \div 2)

\* num / den (num >= 0, den > 0) rounded to the nearest integer, a tie going to
\* the even one (IEEE 754 round-to-nearest-even).
RoundHalfEven(num, den) ==
    LET q == num \div den
        r == num % den
    IN  IF 2 * r > den THEN q + 1
        ELSE IF 2 * r < den THEN q
        ELSE IF q % 2 = 0 THEN q ELSE q + 1

\* The same for a numerator of either sign.
RoundHalfEvenSigned(num, den) ==
    IF num >= 0 THEN RoundHalfEven(num, den) ELSE -RoundHalfEven(-num, den)

\* num / den rounded to the nearest integer, a tie going up or down as told.
RoundHalf(num, den, up) ==
    LET q == num \div den
        r == num % den
    IN  IF 2 * r > den THEN q + 1
        ELSE IF 2 * r < den THEN q
        ELSE IF up THEN q + 1 ELSE q

\* Math.cos(-rotate * PI / 180) or Math.sin(-rotate * PI / 180) where the exact
\* value is 0: the double is not 0 but about 6.12e-17, 1.22e-16, 1.84e-16 for
\* rotate = 90, 180, 270.  The value is given in 2^-52, times 100000.
TrigResidue(rotate) ==
    CASE rotate = 90 -> 27577 [] rotate = 180 -> 55153 [] rotate = 270 -> 82730

\* The rotated coordinate fl(m/2 + sgn * residue * oo/2) differs from m/2 by
\* some units in the last place, and so does its square.  The result is the
\* rounding error of the square (double of the coordinate, squared, minus
\* m^2/4), in 2^-52, times 8.
SquareError8(m, oo, sgn, rotate) ==
    IF m = 0 \/ oo = 0 THEN 0
    ELSE LET away == (sgn * Sign(oo) > 0) <=> (m > 0)
             am == Abs(m)
             P1 == Pow2Floor(am)
             P2 == Pow2Floor(am * am)
             h == IF away \/ am # P1 THEN 1 ELSE 2
             ulps == RoundHalfEven(TrigResidue(rotate) * Abs(oo) * h, 100000 * P1)
             h2 == IF away \/ am * am # P2 THEN 1 ELSE 2
             a == RoundHalf(2 * am * ulps * P1 * h2, h * P2, away)
             c == (a * P2 * 2) \div h2
         IN  IF away THEN c ELSE -c

\* The main term, the other coordinate and the sign of the residue in the two
\* rotated coordinates x1 = x cos - y sin and y1 = x sin + y cos.
RotatedTerms(x2, y2, rotate) ==
    CASE rotate = 90 -> << <<y2, x2, 1>>, <<-x2, y2, 1>> >>
      [] rotate = 180 -> << <<-x2, y2, 1>>, <<-y2, x2, -1>> >>
      [] rotate = 270 -> << <<-y2, x2, -1>>, <<x2, y2, -1>> >>

\* Math.sqrt(x1 * x1 + y1 * y1) > inputRegisterDistance in double arithmetic,
\* for a displacement that lies exactly on the dead-zone circle (the exact
\* radius is then a multiple of half a pixel, and the double is that value or
\* the double next to it, as `rounding` tells).  Without a rotation the
\* distance is the exact radius, which exceeds the double only when the
\* double was rounded down.  With a rotation of 90, 180 or 270 degrees the
\* rounding errors of the rotated coordinates shift the sum of squares by n
\* units in its last place and the distance by n * ulp(r^2) / (2 r ulp(r))
\* units, rounded to the nearest with the square root's curvature breaking a
\* tie downwards; the distance exceeds the double when that shift is above the
\* double's own.
ExceedsOnCircle(x2, y2, rotate, inputRegisterDistance) ==
    IF rotate = 0 THEN inputRegisterDistance.rounding < 0
    ELSE LET t == RotatedTerms(x2, y2, rotate)
             tot8 == SquareError8(t[1][1], t[1][2], t[1][3], rotate)
                        + SquareError8(t[2][1], t[2][2], t[2][3], rotate)
             r8 == inputRegisterDistance.px200 \div 25
             n == RoundHalfEvenSigned(8 * tot8, Pow2Floor(r8 * r8))
         IN  n * Pow2Floor(r8 * r8)
                > (2 * inputRegisterDistance.rounding + 1) * r8 * Pow2Floor(r8)

\* centerDistance > inputRegisterDistance as the code evaluates it, for the
\* doubled displacement (x2, y2) before the rotation.
CenterDistanceExceeds(x2, y2, rotate, inputRegisterDistance) ==
    IF /\ inputRegisterDistance.px200 > 0
       /\ 10000 * (x2 * x2 + y2 * y2)
             = inputRegisterDistance.px200 * inputRegisterDistance.px200
    THEN ExceedsOnCircle(x2, y2, rotate, inputRegisterDistance)
    ELSE Exceeds(x2, y2, inputRegisterDistance)

\* The direction onDpadMove computes for a client position.
ComputeDirection(clientX, clientY, rect, rotate, inputRegisterDistance) ==
    LET d == Displacement2(clientX, clientY, rect)
        r == InverseRotate(d[1], d[2], rotate)
    IN  IF CenterDistanceExceeds(d[1], d[2], rotate, inputRegisterDistance)
        THEN DirectionOfAngle(AngleOf(r[1], r[2], rotate))
        ELSE "center"

(***************************************************************************)
(* DpadController: state machine                                           *)
(***************************************************************************)

\* The options a d-pad is constructed with in the model.  A callback is a
\* function of the user ("user") or left out ("none"); centerRadiusThreshold
\* is optional: <<>> when left out, <<t>> when given as t percent.
DpadOptionSet ==
    [ onPressCallback : {"user"},
      onReleaseCallback : {"user", "none"},
      centerRadiusThreshold : {<<>>},
      keyRepeat : BOOLEAN,
      rotate : {0} ]

\* constructor.  onPressCallback is the user's function or the default logger;
\* onReleaseCallback is assigned the default logger whatever the options hold.
DpadController(options) ==
    [ currentDirection |-> "center",
      pointerId |-> -1,
      baseRect |-> Undefined,
      inputRegisterDistance |-> ZeroDistance,
      isPressed |-> FALSE,
      centerThreshold |-> IF options.centerRadiusThreshold = <<>>
                          THEN DefaultCenterThreshold
                          ELSE options.centerRadiusThreshold[1],
      onPressCallback |-> IF options.onPressCallback = "user" THEN "user" ELSE "default",
      onReleaseCallback |-> "default",
      keyRepeat |-> options.keyRepeat,
      rotate |-> options.rotate,
      options |-> options ]

\* The rectangles getBoundingClientRect() returns for the d-pad's base.
DpadRects ==
    { [left |-> 0, top |-> 0, width |-> 80, height |-> 80],
      [left |-> 20, top |-> 20, width |-> 40, height |-> 60] }

\* The client positions of the events: the center of the first rectangle, a
\* point on its dead-zone circle (radius 10), two points of its sector "right"
\* and one of its sector "up".
DpadPoints == { <<40, 40>>, <<50, 40>>, <<60, 40>>, <<70, 30>>, <<40, 10>> }

TouchIds == 0..(MaxPointers - 1)

PointerEvent(type, pointerId, pos) ==
    [type |-> type, kind |-> "PointerEvent", pointerId |-> pointerId,
     clientX |-> pos[1], clientY |-> pos[2]]

Touch(identifier, pos) == [identifier |-> identifier, clientX |-> pos[1], clientY |-> pos[2]]

\* A touchstart lists the new touch in touches, a touchend lists the lifted
\* touch in changedTouches.
TouchEvent(type, identifier, pos) ==
    [type |-> type, kind |-> "TouchEvent",
     touches |-> IF type = "touchstart" THEN <<Touch(identifier, pos)>> ELSE <<>>,
     changedTouches |-> <<Touch(identifier, pos)>>]

\* A handler's result: the control's fields after it and the callbacks it
\* invoked, in order.
Result(ctl, out) == [ctl |-> ctl, out |-> out]

\* updateContainerRectangle(), rect being what getBoundingClientRect() returns.
DpadUpdateContainerRectangle(d, rect) ==
    [d EXCEPT !.baseRect = rect,
              !.inputRegisterDistance = InputRegisterDistance(rect, d.centerThreshold)]

\* onDpadMove as a bug would have it: the press callback fires on every move.
onDpadMoveAlways(d, e) ==
    IF ~d.isPressed THEN Result(d, <<>>)
    ELSE LET direction == ComputeDirection(e.clientX, e.clientY, d.baseRect, d.rotate,
                                           d.inputRegisterDistance)
         IN  Result([d EXCEPT !.currentDirection = direction],
                    <<Call("dpad", "onPressCallback", d.onPressCallback, <<direction>>)>>)

\* onDpadMove as a bug would have it: the press callback is invoked from inside
\* the verbose-logging guard.
onDpadMoveWhenVerbose(d, e) ==
    IF ~d.isPressed THEN Result(d, <<>>)
    ELSE LET direction == ComputeDirection(e.clientX, e.clientY, d.baseRect, d.rotate,
                                           d.inputRegisterDistance)
         IN  IF d.currentDirection # direction
             THEN Result([d EXCEPT !.currentDirection = direction],
                         IF "verboseLogging" \in DOMAIN d /\ ~d.verboseLogging
                         THEN <<>>
                         ELSE <<Call("dpad", "onPressCallback", d.onPressCallback, <<direction>>)>>)
             ELSE Result(d, <<>>)

\* onDpadMove as a bug would have it: entering the dead zone is reported
\* through the release callback.
onDpadMoveReleaseOnCenter(d, e) ==
    IF ~d.isPressed THEN Result(d, <<>>)
    ELSE LET direction == ComputeDirection(e.clientX, e.clientY, d.baseRect, d.rotate,
                                           d.inputRegisterDistance)
         IN  IF d.currentDirection # direction
             THEN Result([d EXCEPT !.currentDirection = direction],
                         IF direction = "center"
                         THEN <<Call("dpad", "onReleaseCallback", d.onReleaseCallback,
                                     <<"center">>)>>
                         ELSE <<Call("dpad", "onPressCallback", d.onPressCallback,
                                     <<direction>>)>>)
             ELSE Result(d, <<>>)

\* onDpadMove(e).
onDpadMove(d, e) ==
    IF ~d.isPressed THEN Result(d, <<>>)
    ELSE LET direction == ComputeDirection(e.clientX, e.clientY, d.baseRect, d.rotate,
                                           d.inputRegisterDistance)
         IN  IF d.currentDirection # direction
             THEN Result([d EXCEPT !.currentDirection = direction],
                         <<Call("dpad", "onPressCallback", d.onPressCallback, <<direction>>)>>)
             ELSE Result(d, <<>>)

\* onDpadDown(e), rect being the base's rectangle at that moment.
onDpadDown(d, e, rect) ==
    IF e.kind = "PointerEvent"
    THEN onDpadMove(DpadUpdateContainerRectangle(
                        [d EXCEPT !.isPressed = TRUE, !.pointerId = e.pointerId], rect), e)
    ELSE IF e.kind = "TouchEvent" /\ Len(e.touches) > 0
    THEN onDpadMove(DpadUpdateContainerRectangle(
                        [d EXCEPT !.isPressed = TRUE, !.pointerId = e.touches[1].identifier], rect),
                    e.touches[1])
    ELSE Result(d, <<>>)

\* The reset as a bug would have it: the release callback is handed the
\* direction that was held.
DpadResetDirectionHeld(d) ==
    IF d.currentDirection # "center"
    THEN Result([d EXCEPT !.currentDirection = "center"],
                <<Call("dpad", "onReleaseCallback", d.onReleaseCallback,
                       <<d.currentDirection>>)>>)
    ELSE Result(d, <<>>)

\* The reset of the direction that ends onDpadUp.
DpadResetDirection(d) ==
    IF d.currentDirection # "center"
    THEN Result([d EXCEPT !.currentDirection = "center"],
                <<Call("dpad", "onReleaseCallback", d.onReleaseCallback, <<"center">>)>>)
    ELSE Result(d, <<>>)

\* onDpadUp as a bug would have it: the direction is kept.
onDpadUpKeepDirection(d, e) ==
    IF "pointerId" \in DOMAIN e /\ e.pointerId = d.pointerId
    THEN Result([d EXCEPT !.isPressed = FALSE, !.pointerId = -1],
                IF d.currentDirection # "center"
                THEN <<Call("dpad", "onReleaseCallback", d.onReleaseCallback, <<"center">>)>>
                ELSE <<>>)
    ELSE Result(d, <<>>)

\* onDpadUp as a bug would have it: the release callback fires on every release.
onDpadUpAlwaysFires(d, e) ==
    Result([d EXCEPT !.isPressed = FALSE, !.pointerId = -1, !.currentDirection = "center"],
           <<Call("dpad", "onReleaseCallback", d.onReleaseCallback, <<"center">>)>>)

\* onDpadUp(e).
onDpadUp(d, e) ==
    IF "pointerId" \in DOMAIN e /\ e.pointerId = d.pointerId
    THEN DpadResetDirection([d EXCEPT !.isPressed = FALSE, !.pointerId = -1])
    ELSE IF e.kind = "TouchEvent" /\ Len(e.changedTouches) > 0
    THEN DpadResetDirection([d EXCEPT !.pointerId = -1])
    ELSE DpadResetDirection(d)

\* One event delivered to the d-pad: the handler's result becomes the state.
DpadDeliver(e, result) ==
    /\ nEvents < MaxEvents
    /\ lastEvent' = e
    /\ dpad' = result.ctl
    /\ calls' = calls \o result.out
    /\ fired' = Len(result.out)
    /\ nEvents' = nEvents + 1
    /\ UNCHANGED <<button, joystick, slider, sibling, probe>>

\* base "pointerdown" listener.
DpadPointerDown ==
    \E p \in PointerIds, pos \in DpadPoints, rect \in DpadRects :
       LET e == PointerEvent("pointerdown", p, pos)
       IN  DpadDeliver(e, onDpadDown(dpad, e, rect))

\* base "pointermove" listener.
DpadPointerMove ==
    \E p \in PointerIds, pos \in DpadPoints :
       LET e == PointerEvent("pointermove", p, pos)
       IN  DpadDeliver(e, onDpadMove(dpad, e))

\* base "pointerup" listener.
DpadPointerUp ==
    \E p \in PointerIds, pos \in DpadPoints :
       LET e == PointerEvent("pointerup", p, pos)
       IN  DpadDeliver(e, onDpadUp(dpad, e))

\* base "touchstart" listener.
DpadTouchStart ==
    \E t \in TouchIds, pos \in DpadPoints, rect \in DpadRects :
       LET e == TouchEvent("touchstart", t, pos)
       IN  DpadDeliver(e, onDpadDown(dpad, e, rect))

\* base "touchend" listener.
DpadTouchEnd ==
    \E t \in TouchIds, pos \in DpadPoints :
       LET e == TouchEvent("touchend", t, pos)
       IN  DpadDeliver(e, onDpadUp(dpad, e))

\* A "pointercancel" on the base: init() adds no listener for it, so no
\* handler runs and the d-pad is left as it is.
DpadPointerCancel ==
    \E p \in PointerIds, pos \in DpadPoints :
       LET e == PointerEvent("pointercancel", p, pos)
       IN  DpadDeliver(e, Result(dpad, <<>>))

InitDpad ==
    /\ \E o \in DpadOptionSet : dpad = DpadController(o)
    /\ button = Absent
    /\ joystick = Absent
    /\ calls = <<>>
    /\ sibling = Absent
    /\ slider = Absent
    /\ lastEvent = NoEvent
    /\ nEvents = 0
    /\ fired = 0
    /\ probe = NoProbe

NextDpad ==
    \/ DpadPointerDown
    \/ DpadPointerMove
    \/ DpadPointerUp
    \/ DpadTouchStart
    \/ DpadTouchEnd
    \/ DpadPointerCancel

SpecDpad == InitDpad /\ [][NextDpad]_vars

\* The direction onDpadMove computes for event e in the d-pad state d.
DirectionAt(d, e) ==
    ComputeDirection(e.clientX, e.clientY, d.baseRect, d.rotate, d.inputRegisterDistance)

PressCall(d, direction) == Call("dpad", "onPressCallback", d.onPressCallback, <<direction>>)
ReleaseCall(d) == Call("dpad", "onReleaseCallback", d.onReleaseCallback, <<"center">>)

\* No two onPress calls that follow each other in the log (no release between
\* them) carry the same direction.
NoRepeatedPress ==
    \A i \in DOMAIN calls :
       (i + 1 \in DOMAIN calls /\ calls[i].cb = "onPressCallback"
            /\ calls[i + 1].cb = "onPressCallback")
          => calls[i].args # calls[i + 1].args

\* A step fires the press callback only with a direction that differs from the
\* current one, and a move that computes the current direction again changes
\* nothing and fires nothing, with keyRepeat set or not.
PressOnlyOnChange ==
    /\ \A i \in DOMAIN calls' :
          (i > Len(calls) /\ calls'[i].cb = "onPressCallback")
             => /\ calls'[i].args # <<dpad.currentDirection>>
                /\ calls'[i].args = <<dpad'.currentDirection>>
                /\ Len(calls') = Len(calls) + 1
    /\ (lastEvent'.type = "pointermove" /\ dpad.isPressed
           /\ DirectionAt(dpad, lastEvent') = dpad.currentDirection)
          => (dpad' = dpad /\ calls' = calls)

\* C3: while pressed the press callback fires only when the computed direction
\* differs from currentDirection; moves that stay in the sector (or in the dead
\* zone) fire nothing; consecutive onPress payloads are never equal; keyRepeat
\* makes no difference.
C3_PressOnTransition == [] NoRepeatedPress /\ [][PressOnlyOnChange]_vars

\* C3 witness: with keyRepeat set, "right" was reported once and a later move to
\* another point of the sector "right" fired nothing.
C3_Witness ==
    /\ dpad.keyRepeat
    /\ lastEvent.type = "pointermove"
    /\ <<lastEvent.clientX, lastEvent.clientY>> = <<70, 30>>
    /\ dpad.isPressed
    /\ dpad.currentDirection = "right"
    /\ fired = 0
    /\ calls = <<PressCall(dpad, "right")>>

\* C4: every release (onDpadUp) leaves currentDirection = "center"; it fires the
\* release callback exactly once when the direction was not "center" and fires
\* nothing when it was.
C4_ReleaseResets ==
    [][ lastEvent'.type \in {"pointerup", "touchend"} =>
          /\ dpad'.currentDirection = "center"
          /\ dpad.currentDirection # "center" => calls' = Append(calls, ReleaseCall(dpad))
          /\ dpad.currentDirection = "center" => calls' = calls
      ]_vars

\* C4 witness: a release from a non-center direction fired the release callback
\* once and left the direction at "center".
C4_Witness ==
    /\ lastEvent.type = "pointerup"
    /\ fired = 1
    /\ dpad.currentDirection = "center"
    /\ Len(calls) = 2
    /\ calls[1].cb = "onPressCallback" /\ calls[1].args # <<"center">>
    /\ calls[2].cb = "onReleaseCallback"

\* C5: when the options hold a release callback of the user, that function is
\* the one every release invokes.
C5_UserReleaseCallback ==
    dpad.options.onReleaseCallback = "user" =>
       \A i \in DOMAIN calls :
          calls[i].cb = "onReleaseCallback" => calls[i].fn = "user"

(***************************************************************************)
(* DpadController: the direction as a function of its inputs               *)
(***************************************************************************)

\* The angles the sector chain is applied to: every hundredth of a degree of
\* [-180, 180].
ProbeAngles == -18000..18000

\* The rectangles, positions, rotations and thresholds (percentages) the
\* direction is computed for.  The third and the fifth rectangle have their
\* center on a half pixel.  The threshold of 57 percent is no binary fraction:
\* on the fifth rectangle the double of its dead-zone radius lies below the
\* exact 28.5 pixels, the distance of the position (22, 50).  The negative
\* threshold leaves no dead zone, not even at the center.
ProbeRects ==
    { [left |-> 0, top |-> 0, width |-> 80, height |-> 80],
      [left |-> 20, top |-> 20, width |-> 40, height |-> 60],
      [left |-> 0, top |-> 0, width |-> 81, height |-> 80],
      [left |-> 0, top |-> 0, width |-> 100, height |-> 100],
      [left |-> 0, top |-> 0, width |-> 101, height |-> 100] }
ProbeCoords == {5 * k : k \in 0..16} \cup {22, 41, 46, 48}
ProbeRotations == {0, 90, 180, 270}
ProbeThresholds == {<<>>, <<0>>, <<50>>, <<57>>, <<100>>, <<-10>>}

AngleProbe(angle) == [fn |-> "DirectionOfAngle", angle |-> angle, out |-> "unset"]

DirectionProbe(clientX, clientY, rect, rotate, threshold) ==
    [fn |-> "ComputeDirection", clientX |-> clientX, clientY |-> clientY, rect |-> rect,
     rotate |-> rotate, centerRadiusThreshold |-> threshold, out |-> "unset"]

InitGeometry ==
    /\ \/ \E a \in ProbeAngles : probe = AngleProbe(a)
       \/ \E x \in ProbeCoords, y \in ProbeCoords, rect \in ProbeRects,
             r \in ProbeRotations, t \in ProbeThresholds :
             probe = DirectionProbe(x, y, rect, r, t)
    /\ button = Absent
    /\ dpad = Absent
    /\ joystick = Absent
    /\ calls = <<>>
    /\ sibling = Absent
    /\ slider = Absent
    /\ lastEvent = NoEvent
    /\ nEvents = 0
    /\ fired = 0

\* The sector chain applied to the angle.
ApplyDirectionOfAngle ==
    /\ probe.fn = "DirectionOfAngle"
    /\ probe.out = "unset"
    /\ probe' = [probe EXCEPT !.out = DirectionOfAngle(probe.angle)]
    /\ UNCHANGED <<button, dpad, joystick, slider, sibling, calls, lastEvent, nEvents, fired>>

\* A d-pad constructed with the rotation and the threshold, pressed on a base
\* with the rectangle, computes the direction of the position.
ApplyComputeDirection ==
    /\ probe.fn = "ComputeDirection"
    /\ probe.out = "unset"
    /\ LET d == DpadUpdateContainerRectangle(
                   DpadController([onPressCallback |-> "none", onReleaseCallback |-> "none",
                                   centerRadiusThreshold |-> probe.centerRadiusThreshold,
                                   keyRepeat |-> FALSE, rotate |-> probe.rotate]),
                   probe.rect)
       IN  probe' = [probe EXCEPT !.out = DirectionAt(d, probe)]
    /\ UNCHANGED <<button, dpad, joystick, slider, sibling, calls, lastEvent, nEvents, fired>>

NextGeometry == ApplyDirectionOfAngle \/ ApplyComputeDirection

SpecGeometry == InitGeometry /\ [][NextGeometry]_vars

\* The threshold of a direction probe, defaulting to 25 percent.
ProbeThreshold ==
    IF probe.centerRadiusThreshold = <<>> THEN 25 ELSE probe.centerRadiusThreshold[1]

\* The dead-zone radius of a direction probe, in 1/200 pixel:
\* min(width, height) / 2 * threshold.
ProbeDeadZone200 ==
    Min(probe.rect.width, probe.rect.height) * ProbeThreshold

\* Twice the displacement of a direction probe from the center of its rectangle.
ProbeDx2 == 2 * probe.clientX - 2 * probe.rect.left - probe.rect.width
ProbeDy2 == 2 * probe.clientY - 2 * probe.rect.top - probe.rect.height

\* The probe's position is within the dead zone: distance <= radius, i.e.
\* the radius is not negative and (200 * distance)^2 <= (200 * radius)^2.
ProbeInDeadZone ==
    /\ ProbeDeadZone200 >= 0
    /\ 10000 * (ProbeDx2 * ProbeDx2 + ProbeDy2 * ProbeDy2)
          <= ProbeDeadZone200 * ProbeDeadZone200

\* The probe's position is exactly on the dead-zone circle, and the double of
\* the radius lies below the exact radius.
ProbeOnShortCircle ==
    /\ ProbeDeadZone200 > 0
    /\ 10000 * (ProbeDx2 * ProbeDx2 + ProbeDy2 * ProbeDy2)
          = ProbeDeadZone200 * ProbeDeadZone200
    /\ RoundingSign(Min(probe.rect.width, probe.rect.height), ProbeThreshold) < 0

\* C6: a position whose distance from the rectangle's center is at most
\* min(width, height) / 2 * centerThreshold reads "center", whatever the angle
\* and the rotation; a position strictly farther reads a direction other than
\* "center".
C6_DeadZone ==
    (probe.fn = "ComputeDirection" /\ probe.out # "unset") =>
       (ProbeInDeadZone <=> probe.out = "center")

\* The dead-zone rule for an unrotated d-pad: the doubles decide as exact
\* arithmetic does, except on the circle itself when the double of the radius
\* lies below the exact radius.
DeadZoneUnrotated ==
    (probe.fn = "ComputeDirection" /\ probe.out # "unset" /\ probe.rotate = 0) =>
       ((ProbeInDeadZone /\ ~ProbeOnShortCircle) <=> probe.out = "center")

\* C7: every angle of [-180, 180] satisfies the condition of exactly one of the
\* eight sectors, which is the direction read (with "left" on both sides of
\* +/-180); and, unrotated and outside the dead zone, a position straight above
\* the center reads "up" and one straight to the right reads "right".
C7_Sectors ==
    /\ (probe.fn = "DirectionOfAngle" /\ probe.out # "unset") =>
          /\ Cardinality({d \in Directions : InSector(d, probe.angle)}) = 1
          /\ probe.out # "center"
          /\ InSector(probe.out, probe.angle)
          /\ (probe.angle > 15750 \/ probe.angle <= -15750) <=> probe.out = "left"
    /\ (probe.fn = "ComputeDirection" /\ probe.out # "unset" /\ probe.rotate = 0
          /\ ~ProbeInDeadZone) =>
          /\ (ProbeDx2 = 0 /\ ProbeDy2 < 0) => probe.out = "up"
          /\ (ProbeDy2 = 0 /\ ProbeDx2 > 0) => probe.out = "right"
          /\ (ProbeDx2 = 0 /\ ProbeDy2 > 0) => probe.out = "down"
          /\ (ProbeDy2 = 0 /\ ProbeDx2 < 0) => probe.out = "left"

\* C7 witness: a position above the center (smaller clientY), outside the dead
\* zone, read as "up".
C7_Witness ==
    /\ probe.fn = "ComputeDirection"
    /\ probe.rotate = 0
    /\ ProbeDx2 = 0 /\ ProbeDy2 < 0
    /\ ~ProbeInDeadZone
    /\ probe.out = "up"

\* C8, as claimed: exactly 22.5 degrees reads "up-right" and an angle just below
\* reads "right".
C8_Original ==
    (probe.fn = "DirectionOfAngle" /\ probe.out # "unset") =>
       /\ probe.angle = 2250 => probe.out = "up-right"
       /\ probe.angle = 2249 => probe.out = "right"

\* C8, amended: exactly 22.5 degrees still reads "right" (the sector is
\* (-22.5, 22.5]), as does an angle just below; an angle just above 22.5 degrees
\* reads "up-right".
C8_Boundary ==
    (probe.fn = "DirectionOfAngle" /\ probe.out # "unset") =>
       /\ probe.angle = 2250 => probe.out = "right"
       /\ probe.angle = 2249 => probe.out = "right"
       /\ probe.angle = 2251 => probe.out = "up-right"

\* C8 witness: the sector chain applied to exactly 22.5 degrees.
C8_Witness ==
    /\ probe.fn = "DirectionOfAngle"
    /\ probe.angle = 2250
    /\ probe.out = "right"

(***************************************************************************)
(* JoysickController                                                       *)
(***************************************************************************)

\* radius of the README's joystick.
ReadmeRadius == 100

\* The options a joystick is constructed with in the model.
JoystickOptionSet ==
    [ onInputCallback : {"user"},
      radius : {ReadmeRadius, 50},
      rotate : {0, 90} ]

\* baseThumb.offsetWidth: the thumb is rendered radius / 2.5 pixels wide, and
\* offsetWidth is that width rounded to an integer.  For a radius that is a
\* multiple of 5 (the radii of this model) the width is an integer and so is
\* thumbMaxDistance = (radius - offsetWidth) / 1.5 = 2 * radius / 5.
ThumbOffsetWidth(radius) == (4 * radius + 5) \div 10

\* The rectangles getBoundingClientRect() returns for the joystick's base.
JoyRects ==
    { [left |-> 0, top |-> 0, width |-> 100, height |-> 100],
      [left |-> 10, top |-> 20, width |-> 100, height |-> 100] }

\* The client positions of the events.  Seen from the center (50, 50) of the
\* first rectangle: the center and (9, 7) inside the disc of radius 40,
\* (32, 24) on its edge, and (200, 0), (80, 80), (-90, 120) beyond it.
JoyPoints ==
    { <<50, 50>>, <<59, 57>>, <<82, 74>>, <<250, 50>>, <<130, 130>>, <<-40, 170>> }

\* updateContainerRectangle(): thumbMaxDistance = (radius - offsetWidth) / 1.5
\* is kept tripled, i.e. in thirds of a pixel.
JoyUpdateContainerRectangle(j, rect) ==
    [j EXCEPT !.baseRect = rect,
              !.thumbMaxDistance = 2 * (j.radius - ThumbOffsetWidth(j.radius))]

\* constructor and init(): the fields, then the first updateContainerRectangle()
\* with the rectangle the base has at construction.
JoysickController(options, rect) ==
    JoyUpdateContainerRectangle(
        [ isPressed |-> FALSE,
          radius |-> options.radius,
          rotate |-> options.rotate,
          onInputCallback |-> IF options.onInputCallback = "user" THEN "user" ELSE "default",
          thumbMaxDistance |-> 0,
          baseRect |-> Undefined ],
        rect)

\* distance > thumbMaxDistance for the doubled displacement (x2, y2):
\* sqrt(x2^2 + y2^2) / 2 > thumbMaxDistance3 / 3.
BeyondMaxDistance(x2, y2, thumbMaxDistance3) ==
    \/ thumbMaxDistance3 < 0
    \/ 9 * (x2 * x2 + y2 * y2) > 4 * thumbMaxDistance3 * thumbMaxDistance3

\* floor(40000 * v2^2 / n2) for v2^2 <= n2, computed in steps that stay within
\* 32 bits.
FloorSquareRatio(v2, n2) ==
    LET q == (v2 * v2) \div n2
        r == (v2 * v2) % n2
        q1 == (200 * r) \div n2
        r1 == (200 * r) % n2
    IN  40000 * q + 200 * q1 + (200 * r1) \div n2

\* |v2| / sqrt(n2) in hundredths, rounded to the nearest (toFixed(2)): the
\* largest k with (2k - 1) / 200 <= |v2| / sqrt(n2).  The quotient is never
\* half-way between two hundredths: 200^2 is not the sum of an odd square and
\* a square.
RoundedRatioToRoot(v2, n2) ==
    LET t == FloorSquareRatio(v2, n2)
    IN  CHOOSE k \in 0..100 :
           /\ k = 0 \/ (2 * k - 1) * (2 * k - 1) <= t
           /\ k = 100 \/ (2 * k + 1) * (2 * k + 1) > t

\* Math.max(-1, Math.min(1, v)), in hundredths.
ClampUnit(h) == Max(-100, Min(100, h))

\* The binary long division of r / q (r < q) by n more bits: the remainder and
\* the last quotient bit.
RECURSIVE LongDivision(_, _, _, _)
LongDivision(r, q, n, bit) ==
    IF n = 0 THEN <<r, bit>>
    ELSE IF 2 * r >= q THEN LongDivision(2 * r - q, q, n - 1, 1)
         ELSE LongDivision(2 * r, q, n - 1, 0)

\* p * 2^s with q <= p * 2^s < 2q, for 0 < p <= q.
RECURSIVE ScaleToQuotient(_, _)
ScaleToQuotient(p, q) == IF p >= q THEN p ELSE ScaleToQuotient(2 * p, q)

\* The sign of fl(p / q) - p / q, fl being the double nearest to the quotient
\* (53 significant bits, a tie going to the even one), for 0 < p <= q.
QuotientRoundingSign(p, q) ==
    LET d == LongDivision(ScaleToQuotient(p, q) - q, q, 52, 1)
    IN  IF d[1] = 0 THEN 0
        ELSE IF 2 * d[1] < q THEN -1
        ELSE IF 2 * d[1] > q THEN 1
        ELSE IF d[2] = 0 THEN -1 ELSE 1

\* The rotated terms as a bug would have them: the two axes exchanged.
JoyRotatedTermsSwapped(x2, y2, rotate) ==
    IF rotate = 0 THEN << <<y2, 0, 1>>, <<x2, 0, 1>> >>
    ELSE << RotatedTerms(x2, y2, rotate)[2], RotatedTerms(x2, y2, rotate)[1] >>

\* The main term, the other coordinate and the sign of the residue in the two
\* coordinates after the rotation (none for rotate = 0).
JoyRotatedTerms(x2, y2, rotate) ==
    IF rotate = 0 THEN << <<x2, 0, 1>>, <<y2, 0, 1>> >>
    ELSE RotatedTerms(x2, y2, rotate)

\* Whether toFixed(2) rounds the magnitude of v / thumbMaxDistance up when the
\* exact quotient lies half-way between two hundredths: the double the code
\* holds is not the exact quotient.  If the residue of the rotation moved the
\* rotated coordinate by a unit in the last place, it decides; otherwise the
\* rounding of the division does, and an exactly representable half-way value
\* goes up.  thumbMaxDistance must be an integer.
TieGoesUp(term, rotate, thumbMaxDistance3) ==
    LET m == term[1]
        oo == term[2]
        am == Abs(m)
        away == (term[3] * Sign(oo) > 0) <=> (m > 0)
        h == IF away \/ am # Pow2Floor(am) THEN 1 ELSE 2
        ulps == IF rotate = 0 \/ oo = 0 THEN 0
                ELSE RoundHalfEven(TrigResidue(rotate) * Abs(oo) * h,
                                   100000 * Pow2Floor(am))
    IN  IF ulps > 0 THEN away
        ELSE QuotientRoundingSign(3 * am, 2 * thumbMaxDistance3) >= 0

\* toFixed(2) of |v| / thumbMaxDistance, in hundredths, v = term[1] / 2 lying
\* within thumbMaxDistance.
RoundedRatio(term, rotate, thumbMaxDistance3) ==
    LET num == 300 * Abs(term[1])
        den == 2 * thumbMaxDistance3
        q == num \div den
        r == num % den
    IN  IF 2 * r > den THEN q + 1
        ELSE IF 2 * r < den THEN q
        ELSE IF TieGoesUp(term, rotate, thumbMaxDistance3) THEN q + 1 ELSE q

\* The axis value as a bug would have it: each axis clamped on its own, the
\* displacement never rescaled to the disc.
JoyAxisPerAxis(term, x2, y2, rotate, thumbMaxDistance3) ==
    10 * ClampUnit(Sign(term[1]) * ((300 * Abs(term[1]) + thumbMaxDistance3)
                                       \div (2 * thumbMaxDistance3)))

\* The axis value as a bug would have it: v / thumbMaxDistance neither clamped
\* nor rounded to two decimals.
JoyAxisRaw(term, x2, y2, rotate, thumbMaxDistance3) ==
    Sign(term[1]) * ((3000 * Abs(term[1]) + thumbMaxDistance3)
                        \div (2 * thumbMaxDistance3))

\* One axis of the output, in thousandths, for the rotated coordinate term of
\* the doubled displacement (x2, y2): beyond thumbMaxDistance the displacement
\* is first scaled by thumbMaxDistance / distance, so the value is
\* v / distance; otherwise it is v / thumbMaxDistance.  Then the value is
\* clamped to [-1, 1] and rounded by toFixed(2), and the result is the number
\* that two-decimal numeral denotes.
JoyAxis(term, x2, y2, rotate, thumbMaxDistance3) ==
    IF BeyondMaxDistance(x2, y2, thumbMaxDistance3)
    THEN 10 * ClampUnit(Sign(term[1]) * RoundedRatioToRoot(term[1], x2 * x2 + y2 * y2))
    ELSE 10 * ClampUnit(Sign(term[1]) * RoundedRatio(term, rotate, thumbMaxDistance3))


\* The output as a bug would have it: y in the Cartesian convention, positive
\* above the center.
JoyOutputCartesian(clientX, clientY, rect, rotate, thumbMaxDistance3) ==
    LET d == Displacement2(clientX, clientY, rect)
        t == JoyRotatedTerms(d[1], d[2], rotate)
    IN  << JoyAxis(t[1], d[1], d[2], rotate, thumbMaxDistance3),
           -JoyAxis(t[2], d[1], d[2], rotate, thumbMaxDistance3) >>

\* The (x, y) onJoysickMove passes to the callback, in thousandths.
JoyOutput(clientX, clientY, rect, rotate, thumbMaxDistance3) ==
    LET d == Displacement2(clientX, clientY, rect)
        t == JoyRotatedTerms(d[1], d[2], rotate)
    IN  << JoyAxis(t[1], d[1], d[2], rotate, thumbMaxDistance3),
           JoyAxis(t[2], d[1], d[2], rotate, thumbMaxDistance3) >>

\* onJoysickMove(e) as a bug would have it: the callback is invoked only when
\* the value differs from the last one reported.
onJoysickMoveOnChange(j, e) ==
    LET out == JoyOutput(e.clientX, e.clientY, j.baseRect, j.rotate, j.thumbMaxDistance)
    IN  IF ~j.isPressed \/ (calls # <<>> /\ calls[Len(calls)].args = out)
        THEN Result(j, <<>>)
        ELSE Result(j, <<Call("joystick", "onInputCallback", j.onInputCallback, out)>>)

\* onJoysickMove as a bug would have it: no early return while not pressed.
onJoysickMoveNoGuard(j, e) ==
    Result(j, <<Call("joystick", "onInputCallback", j.onInputCallback,
                     JoyOutput(e.clientX, e.clientY, j.baseRect, j.rotate,
                               j.thumbMaxDistance))>>)

\* onJoysickMove(e).
onJoysickMove(j, e) ==
    IF ~j.isPressed THEN Result(j, <<>>)
    ELSE Result(j, <<Call("joystick", "onInputCallback", j.onInputCallback,
                          JoyOutput(e.clientX, e.clientY, j.baseRect, j.rotate,
                                    j.thumbMaxDistance))>>)

\* onJoysickDown(e), rect being the base's rectangle at that moment.
onJoysickDown(j, e, rect) ==
    onJoysickMove(JoyUpdateContainerRectangle([j EXCEPT !.isPressed = TRUE], rect), e)

\* onJoysickUp(e) as a bug would have it: the release reports the center.
onJoysickUpRecenter(j, e) ==
    Result([j EXCEPT !.isPressed = FALSE],
           <<Call("joystick", "onInputCallback", j.onInputCallback, <<0, 0>>)>>)

\* onJoysickUp(e).
onJoysickUp(j, e) == Result([j EXCEPT !.isPressed = FALSE], <<>>)

\* One event delivered to the joystick: the handler's result becomes the state.
JoyDeliver(e, result) ==
    /\ nEvents < MaxEvents
    /\ lastEvent' = e
    /\ joystick' = result.ctl
    /\ calls' = calls \o result.out
    /\ fired' = Len(result.out)
    /\ nEvents' = nEvents + 1
    /\ UNCHANGED <<button, dpad, slider, sibling, probe>>

\* base "pointerdown" listener.
JoyPointerDown ==
    \E p \in PointerIds, pos \in JoyPoints, rect \in JoyRects :
       LET e == PointerEvent("pointerdown", p, pos)
       IN  JoyDeliver(e, onJoysickDown(joystick, e, rect))

\* base "pointermove" listener.
JoyPointerMove ==
    \E p \in PointerIds, pos \in JoyPoints :
       LET e == PointerEvent("pointermove", p, pos)
       IN  JoyDeliver(e, onJoysickMove(joystick, e))

\* base "pointerup" listener.
JoyPointerUp ==
    \E p \in PointerIds :
       LET e == [type |-> "pointerup", pointerId |-> p]
       IN  JoyDeliver(e, onJoysickUp(joystick, e))

\* base "pointercancel" listener.
JoyPointerCancel ==
    \E p \in PointerIds :
       LET e == [type |-> "pointercancel", pointerId |-> p]
       IN  JoyDeliver(e, onJoysickUp(joystick, e))

\* window "resize" listener: updateContainerRectangle().
JoyResize ==
    \E rect \in JoyRects :
       JoyDeliver([type |-> "resize"], Result(JoyUpdateContainerRectangle(joystick, rect), <<>>))

InitJoystick ==
    /\ \E o \in JoystickOptionSet, rect \in JoyRects : joystick = JoysickController(o, rect)
    /\ button = Absent
    /\ dpad = Absent
    /\ calls = <<>>
    /\ sibling = Absent
    /\ slider = Absent
    /\ lastEvent = NoEvent
    /\ nEvents = 0
    /\ fired = 0
    /\ probe = NoProbe

NextJoystick ==
    \/ JoyPointerDown
    \/ JoyPointerMove
    \/ JoyPointerUp
    \/ JoyPointerCancel
    \/ JoyResize

SpecJoystick == InitJoystick /\ [][NextJoystick]_vars

\* The onInputCallback invocations in the log.
InputCalls == { i \in 1..Len(calls) : calls[i].ctl = "joystick" /\ calls[i].cb = "onInputCallback" }

\* C9: with thumbMaxDistance > 0, every (x, y) passed to onInputCallback has
\* both axes in [-1, 1] and both axes are multiples of 0.01 (the values are in
\* thousandths).
C9_OutputRange ==
    joystick.thumbMaxDistance > 0 =>
       \A i \in InputCalls : \A a \in 1..2 :
          /\ calls[i].args[a] >= -1000
          /\ calls[i].args[a] <= 1000
          /\ calls[i].args[a] % 10 = 0

\* A press and then a move to (200, 0) from the center, five times
\* thumbMaxDistance away, which reports (1, 0).
C9_Witness ==
    /\ joystick.thumbMaxDistance > 0
    /\ joystick.rotate = 0
    /\ lastEvent.type = "pointermove"
    /\ Displacement2(lastEvent.clientX, lastEvent.clientY, joystick.baseRect) = <<400, 0>>
    /\ 3 * 400 = 5 * 2 * joystick.thumbMaxDistance
    /\ fired = 1
    /\ Len(calls) = 2
    /\ calls[2].args = <<1000, 0>>

\* The doubled displacement of the last event from the center of the base.
LastDisplacement2 == Displacement2(lastEvent.clientX, lastEvent.clientY, joystick.baseRect)

\* The last event was a press or a move that reported a displacement farther
\* from the center than thumbMaxDistance.
ReportedBeyond ==
    /\ lastEvent.type \in {"pointerdown", "pointermove"}
    /\ fired = 1
    /\ BeyondMaxDistance(LastDisplacement2[1], LastDisplacement2[2], joystick.thumbMaxDistance)

\* C10: a displacement farther from the center than thumbMaxDistance is
\* reported as a vector on the unit circle: hypot(x, y) is 1 within the
\* rounding of the two axes (0.005 each), and for rotate = 0 (x, y) points in
\* the direction of (dx, dy), again within the rounding; a diagonal
\* displacement reports (0.71, 0.71).
C10_VectorClamp ==
    ReportedBeyond =>
       LET x == calls[Len(calls)].args[1]
           y == calls[Len(calls)].args[2]
           dx == LastDisplacement2[1]
           dy == LastDisplacement2[2]
       IN  /\ x * x + y * y <= 1014192
           /\ x * x + y * y >= 985908
           /\ joystick.rotate = 0 =>
                 /\ x * dx + y * dy > 0
                 /\ Abs(x * dy - y * dx) <= 5 * (Abs(dx) + Abs(dy))
                 /\ (dx = dy /\ dx > 0) => (x = 710 /\ y = 710)

\* A displacement of (80, 80) with thumbMaxDistance = 40 and rotate = 0, which
\* reports (0.71, 0.71).
C10_Witness ==
    /\ ReportedBeyond
    /\ joystick.rotate = 0
    /\ joystick.thumbMaxDistance = 120
    /\ LastDisplacement2 = <<160, 160>>
    /\ calls[Len(calls)].args = <<710, 710>>

\* The last event was delivered at the doubled displacement d from the center
\* of the base.
LastEventAt(type, d) ==
    /\ lastEvent.type = type
    /\ LastDisplacement2 = d

\* C11: a joystick with radius 100 and rotate = 0 has a thumb 40 wide and
\* thumbMaxDistance = 40; a press at the center reports (0, 0) and a move to
\* the displacement (200, 0) while pressed reports (1, 0).
C11_EndToEnd ==
    (joystick.radius = ReadmeRadius /\ joystick.rotate = 0) =>
       /\ ThumbOffsetWidth(joystick.radius) = 40
       /\ joystick.thumbMaxDistance = 3 * 40
       /\ LastEventAt("pointerdown", <<0, 0>>) =>
             (fired = 1 /\ calls[Len(calls)].args = <<0, 0>>)
       /\ (LastEventAt("pointermove", <<400, 0>>) /\ joystick.isPressed) =>
             (fired = 1 /\ calls[Len(calls)].args = <<1000, 0>>)

\* The press at the center and the move to (200, 0) have been delivered, in
\* this order and nothing else.
C11_Witness ==
    /\ joystick.radius = ReadmeRadius
    /\ joystick.rotate = 0
    /\ nEvents = 2
    /\ LastEventAt("pointermove", <<400, 0>>)
    /\ Len(calls) = 2
    /\ calls[1].args = <<0, 0>>
    /\ calls[2].args = <<1000, 0>>

\* C12: every pointer-down invokes onInputCallback exactly once, and so does
\* every pointer-move received while pressed, whatever the value reported
\* before; a move while released invokes nothing.
C12_ContinuousStream ==
    /\ lastEvent.type = "pointerdown" =>
          (fired = 1 /\ calls[Len(calls)].cb = "onInputCallback")
    /\ lastEvent.type = "pointermove" =>
          IF joystick.isPressed
          THEN fired = 1 /\ calls[Len(calls)].cb = "onInputCallback"
          ELSE fired = 0

\* A move while pressed has reported the value that had been reported just
\* before.
C12_Witness ==
    /\ lastEvent.type = "pointermove"
    /\ joystick.isPressed
    /\ fired = 1
    /\ Len(calls) >= 2
    /\ calls[Len(calls)].args = calls[Len(calls) - 1].args

\* C13: a pointer-up or pointer-cancel leaves isPressed false and invokes no
\* callback, so the last value reported stays what it was.
C13_SilentRelease ==
    lastEvent.type \in {"pointerup", "pointercancel"} =>
       (~joystick.isPressed /\ fired = 0)

\* A pointer-cancel after a value other than (0, 0) was reported: that value
\* is still the last one in the log.
C13_Witness ==
    /\ lastEvent.type = "pointercancel"
    /\ ~joystick.isPressed
    /\ fired = 0
    /\ calls # <<>>
    /\ calls[Len(calls)].args # <<0, 0>>

(***************************************************************************)
(* RetrackableSlider                                                       *)
(***************************************************************************)

\* The options a slider is constructed with in the model.
SliderOptionSet ==
    [ direction : {"vertical", "horizontal"},
      onSlideCallback : {"user"},
      onReleaseCallback : {"user"} ]

\* constructor: init() renders and adds the listeners, but does not read the
\* rectangle.
RetrackableSlider(options) ==
    [ direction |-> options.direction,
      onSlideCallback |-> IF options.onSlideCallback = "user" THEN "user" ELSE "default",
      onReleaseCallback |-> IF options.onReleaseCallback = "user" THEN "user" ELSE "default",
      isPressed |-> FALSE,
      valuePercent |-> 0,
      baseRect |-> Undefined ]

\* The rectangles getBoundingClientRect() returns for the slider's base.
SliderRects ==
    { [left |-> 10, top |-> 20, width |-> 20, height |-> 200],
      [left |-> 0, top |-> 0, width |-> 50, height |-> 100] }

\* The client positions of the events.  In the first rectangle: the top left
\* corner, the top edge further right, the middle, two positions whose value
\* is half-way between two integers (49.5 and 45.5 for a vertical slider), the
\* bottom right corner, and a position outside.
SliderPoints ==
    { <<10, 20>>, <<25, 20>>, <<20, 120>>, <<21, 121>>, <<22, 129>>, <<30, 220>>,
      <<-5, 300>> }

\* A callback invocation of the slider, with the type of the event that
\* caused it.
SliderCall(cb, fn, args, by) ==
    [ctl |-> "slider", cb |-> cb, fn |-> fn, args |-> args, by |-> by]

\* updateContainerRectangle().
SliderUpdateContainerRectangle(sl, rect) == [sl EXCEPT !.baseRect = rect]

\* The ratio as a bug would have it: the vertical axis not inverted.
SliderRatioNotInverted(direction, clientX, clientY, rect) ==
    IF direction = "vertical"
    THEN << 100 * (clientY - rect.top), rect.height, clientY - rect.top, FALSE >>
    ELSE << 100 * (clientX - rect.left), rect.width, clientX - rect.left, FALSE >>

\* The value before clamping, as numerator and denominator:
\* 100 - ((clientY - top) / height) * 100 for a vertical slider and
\* ((clientX - left) / width) * 100 for a horizontal one; then the offset of
\* the pointer and whether the quotient is subtracted from 100.
SliderRatio(direction, clientX, clientY, rect) ==
    IF direction = "vertical"
    THEN << 100 * rect.height - 100 * (clientY - rect.top), rect.height,
            clientY - rect.top, TRUE >>
    ELSE << 100 * (clientX - rect.left), rect.width, clientX - rect.left, FALSE >>

\* Math.floor(num / den), den > 0.
FloorDiv(num, den) ==
    IF num >= 0 THEN num \div den ELSE -((-num + den - 1) \div den)

\* Whether the double the code computes lies below k + 1/2 when the exact
\* value (d / h) * 100, or 100 minus it, is k + 1/2, for 0 < d < h.  The
\* quotient fl(d / h) is off by the remainder of the division; multiplied by
\* 100 the error moves the product by one unit in the last place only when
\* the product has six more binary digits than the quotient and the error
\* exceeds 0.32 units of the quotient.  The subtraction from 100 keeps that
\* unit only if the result is not in a higher binade than the product.
TieBelow(d, h, k, inverted) ==
    LET p0 == ScaleToQuotient(d, h)
        ld == LongDivision(p0 - h, h, 52, 1)
        rem == ld[1]
        up == 2 * rem > h \/ (2 * rem = h /\ ld[2] = 1)
        six == 100 * p0 < 128 * h
    IN  IF inverted
        THEN /\ up
             /\ six
             /\ 200 * (h - rem) > 64 * h
             /\ Pow2Floor(2 * k + 1) <= Pow2Floor(2 * (99 - k) + 1)
        ELSE /\ rem > 0
             /\ ~up
             /\ six
             /\ 200 * rem > 64 * h

\* NaN as a value of valuePercent and as a callback payload: no percentage.
NaN == -1

\* The rounding as a guard would have it: 0 / 0 reads 0.
ClampRoundGuarded(r) ==
    IF r[1] <= 0 THEN 0
    ELSE IF r[1] >= 100 * r[2] THEN 100
    ELSE FloorDiv(2 * r[1] + r[2], 2 * r[2])

\* The rounding as a bug would have it: the value is not clamped.
RoundUnclamped(r) == FloorDiv(2 * r[1] + r[2], 2 * r[2])

\* Math.round(Math.max(0, Math.min(100, value))) for value = r[1] / r[2].
\* Math.round takes a half up; a value that is exactly half-way in the reals
\* is rounded as the double the code holds.  With r[2] = 0 the division gives
\* NaN for the offset 0, which min, max and round hand on, and an infinity
\* otherwise, which is clamped.
ClampRound(r) ==
    IF r[2] = 0 /\ r[3] = 0 THEN NaN
    ELSE IF r[2] = 0 THEN (IF (r[3] > 0) = r[4] THEN 0 ELSE 100)
    ELSE IF r[1] <= 0 THEN 0
    ELSE IF r[1] >= 100 * r[2] THEN 100
    ELSE LET k == FloorDiv(2 * r[1] + r[2], 2 * r[2])
         IN  IF (2 * r[1] + r[2]) % (2 * r[2]) = 0 /\ TieBelow(r[3], r[2], k - 1, r[4])
             THEN k - 1
             ELSE k

\* The value onSliderMove computes for a client position.
SliderValue(direction, clientX, clientY, rect) ==
    ClampRound(SliderRatio(direction, clientX, clientY, rect))

\* onSliderUp(e) as a bug would have it: the release callback is invoked
\* whatever the value.
onSliderUpAlwaysFires(sl, e) ==
    Result([sl EXCEPT !.isPressed = FALSE, !.valuePercent = 0],
           <<SliderCall("onReleaseCallback", sl.onReleaseCallback, <<>>, e.type)>>)

\* onSliderUp(e).
onSliderUp(sl, e) ==
    IF sl.valuePercent # 0
    THEN Result([sl EXCEPT !.isPressed = FALSE, !.valuePercent = 0],
                <<SliderCall("onReleaseCallback", sl.onReleaseCallback, <<>>, e.type)>>)
    ELSE Result([sl EXCEPT !.isPressed = FALSE], <<>>)

\* onSliderDown(e) as a bug would have it: the press takes its value from the
\* position.
onSliderDownFromPosition(sl, e, rect) ==
    LET value == SliderValue(sl.direction, e.clientX, e.clientY, rect)
    IN  Result([sl EXCEPT !.isPressed = TRUE, !.baseRect = rect, !.valuePercent = value],
               <<SliderCall("onSlideCallback", sl.onSlideCallback, <<value>>, e.type)>>)

\* onSliderDown(e) as a bug would have it: the rectangle is not read at the
\* press.
onSliderDownNoRect(sl, e, rect) ==
    Result([sl EXCEPT !.isPressed = TRUE],
           <<SliderCall("onSlideCallback", sl.onSlideCallback, <<sl.valuePercent>>, e.type)>>)

\* onSliderDown(e), rect being the base's rectangle at that moment.
onSliderDown(sl, e, rect) ==
    Result(SliderUpdateContainerRectangle([sl EXCEPT !.isPressed = TRUE], rect),
           <<SliderCall("onSlideCallback", sl.onSlideCallback, <<sl.valuePercent>>, e.type)>>)

\* onSliderMove(e) as a bug would have it: the callback is invoked on every
\* move.
onSliderMoveAlways(sl, e, rect) ==
    IF ~sl.isPressed THEN Result(sl, <<>>)
    ELSE LET value == SliderValue(sl.direction, e.clientX, e.clientY, rect)
         IN  Result([SliderUpdateContainerRectangle(sl, rect) EXCEPT !.valuePercent = value],
                    <<SliderCall("onSlideCallback", sl.onSlideCallback, <<value>>, e.type)>>)

\* onSliderMove(e), rect being the base's rectangle at that moment.  A NaN
\* differs from every stored value, also from a stored NaN.
onSliderMove(sl, e, rect) ==
    IF ~sl.isPressed THEN Result(sl, <<>>)
    ELSE LET value == SliderValue(sl.direction, e.clientX, e.clientY, rect)
             s1 == SliderUpdateContainerRectangle(sl, rect)
         IN  IF value = NaN \/ s1.valuePercent # value
             THEN Result([s1 EXCEPT !.valuePercent = value],
                         <<SliderCall("onSlideCallback", s1.onSlideCallback, <<value>>, e.type)>>)
             ELSE Result(s1, <<>>)

\* One event delivered to the slider: the handler's result becomes the state.
SliderDeliver(e, result) ==
    /\ nEvents < MaxEvents
    /\ lastEvent' = e
    /\ slider' = result.ctl
    /\ calls' = calls \o result.out
    /\ fired' = Len(result.out)
    /\ nEvents' = nEvents + 1
    /\ UNCHANGED <<button, dpad, joystick, sibling, probe>>

\* base "pointerdown" listener.
SliderPointerDown ==
    \E p \in PointerIds, pos \in SliderPoints, rect \in SliderRects :
       LET e == PointerEvent("pointerdown", p, pos)
       IN  SliderDeliver(e, onSliderDown(slider, e, rect))

\* base "pointermove" listener.
SliderPointerMove ==
    \E p \in PointerIds, pos \in SliderPoints, rect \in SliderRects :
       LET e == PointerEvent("pointermove", p, pos)
       IN  SliderDeliver(e, onSliderMove(slider, e, rect))

\* base "pointerup" listener.
SliderPointerUp ==
    \E p \in PointerIds :
       LET e == [type |-> "pointerup", pointerId |-> p]
       IN  SliderDeliver(e, onSliderUp(slider, e))

\* base "pointercancel" listener.
SliderPointerCancel ==
    \E p \in PointerIds :
       LET e == [type |-> "pointercancel", pointerId |-> p]
       IN  SliderDeliver(e, onSliderUp(slider, e))

\* window "resize" listener: updateContainerRectangle().
SliderResize ==
    \E rect \in SliderRects :
       SliderDeliver([type |-> "resize"],
                     Result(SliderUpdateContainerRectangle(slider, rect), <<>>))

InitSlider ==
    /\ \E o \in SliderOptionSet : slider = RetrackableSlider(o)
    /\ button = Absent
    /\ dpad = Absent
    /\ joystick = Absent
    /\ calls = <<>>
    /\ sibling = Absent
    /\ lastEvent = NoEvent
    /\ nEvents = 0
    /\ fired = 0
    /\ probe = NoProbe

NextSlider ==
    \/ SliderPointerDown
    \/ SliderPointerMove
    \/ SliderPointerUp
    \/ SliderPointerCancel
    \/ SliderResize

SpecSlider == InitSlider /\ [][NextSlider]_vars

\* The onSlideCallback invocations in the log.
SlideCalls == { i \in 1..Len(calls) : calls[i].ctl = "slider" /\ calls[i].cb = "onSlideCallback" }

\* C14: with a rectangle of non-zero size, valuePercent is an integer of
\* [0, 100] in every reachable state and so is every value passed to
\* onSlideCallback, wherever the pointer is.
C14_ValueRange ==
    /\ slider.valuePercent \in 0..100
    /\ \A i \in SlideCalls : calls[i].args[1] \in 0..100

\* A move while pressed to a position outside the rectangle (below its bottom
\* and left of its left edge), which changed the value and reported it.
C14_Witness ==
    /\ lastEvent.type = "pointermove"
    /\ slider.isPressed
    /\ slider.baseRect.width > 0 /\ slider.baseRect.height > 0
    /\ lastEvent.clientX < slider.baseRect.left
    /\ lastEvent.clientY > slider.baseRect.top + slider.baseRect.height
    /\ fired = 1
    /\ calls[Len(calls)].args = <<0>>

\* The offset of the last event along the slider's axis, and the length of
\* the rectangle along it.
LastOffset ==
    IF slider.direction = "vertical" THEN lastEvent.clientY - slider.baseRect.top
    ELSE lastEvent.clientX - slider.baseRect.left

AxisLength ==
    IF slider.direction = "vertical" THEN slider.baseRect.height ELSE slider.baseRect.width

\* C15: after a move while pressed, valuePercent is the integer nearest to
\* clamp(v, 0, 100), v being 100 - (offset / height) * 100 for a vertical
\* slider and (offset / width) * 100 for a horizontal one; the top edge gives
\* 100 and the bottom edge 0, the left edge 0 and the right edge 100; the
\* coordinate across the axis does not matter.
C15_ValueFormula ==
    (lastEvent.type = "pointermove" /\ slider.isPressed) =>
       LET v100 == IF slider.direction = "vertical"
                   THEN 100 * AxisLength - 100 * LastOffset
                   ELSE 100 * LastOffset
           clamped == Max(0, Min(100 * AxisLength, v100))
       IN  /\ 2 * Abs(slider.valuePercent * AxisLength - clamped) <= AxisLength
           /\ LastOffset = 0 =>
                 slider.valuePercent = (IF slider.direction = "vertical" THEN 100 ELSE 0)
           /\ LastOffset = AxisLength =>
                 slider.valuePercent = (IF slider.direction = "vertical" THEN 0 ELSE 100)
           /\ \A other \in {-5, 0, 25} :
                 slider.valuePercent =
                    SliderValue(slider.direction,
                                IF slider.direction = "vertical" THEN other ELSE lastEvent.clientX,
                                IF slider.direction = "vertical" THEN lastEvent.clientY ELSE other,
                                slider.baseRect)

\* A move on a vertical slider to the top edge, away from the left edge, which
\* reported 100.
C15_Witness ==
    /\ lastEvent.type = "pointermove"
    /\ slider.isPressed
    /\ slider.direction = "vertical"
    /\ LastOffset = 0
    /\ lastEvent.clientX # slider.baseRect.left
    /\ fired = 1
    /\ slider.valuePercent = 100
    /\ calls[Len(calls)].args = <<100>>

\* The longest event sequence delivered to the slider that is dragged,
\* released and dragged again.
MaxSlideEvents == 6

\* The client positions of those events: the middle of the first rectangle
\* and the middle of the second, which a vertical slider reads as 50 and 85 on
\* the first rectangle and as 0 and 50 on the second.
SlideAgainPoints == { <<20, 120>>, <<20, 50>> }

\* One event delivered to the slider, within the longer sequence.
SlideAgainDeliver(e, result) ==
    /\ nEvents < MaxSlideEvents
    /\ lastEvent' = e
    /\ slider' = result.ctl
    /\ calls' = calls \o result.out
    /\ fired' = Len(result.out)
    /\ nEvents' = nEvents + 1
    /\ UNCHANGED <<button, dpad, joystick, sibling, probe>>

\* base "pointerdown" listener.
SlideAgainPointerDown ==
    \E pos \in SlideAgainPoints, rect \in SliderRects :
       LET e == PointerEvent("pointerdown", 1, pos)
       IN  SlideAgainDeliver(e, onSliderDown(slider, e, rect))

\* base "pointermove" listener.
SlideAgainPointerMove ==
    \E pos \in SlideAgainPoints, rect \in SliderRects :
       LET e == PointerEvent("pointermove", 1, pos)
       IN  SlideAgainDeliver(e, onSliderMove(slider, e, rect))

\* base "pointerup" listener.
SlideAgainPointerUp ==
    LET e == [type |-> "pointerup", pointerId |-> 1]
    IN  SlideAgainDeliver(e, onSliderUp(slider, e))

NextSlideAgain == SlideAgainPointerDown \/ SlideAgainPointerMove \/ SlideAgainPointerUp

SpecSlideAgain == InitSlider /\ [][NextSlideAgain]_vars

\* The onSlideCallback invocations in the log that a move caused.
MoveSlideCalls == { i \in SlideCalls : calls[i].by = "pointermove" }

\* The onReleaseCallback invocations in the log.
ReleaseCalls ==
    { i \in 1..Len(calls) : calls[i].ctl = "slider" /\ calls[i].cb = "onReleaseCallback" }

\* A step that delivers a pointer-move, as claimed: while pressed and with a
\* value other than the stored one it stores and reports the value; otherwise
\* it reports nothing and leaves the state unchanged.
SliderMoveStepUnchanged ==
    lastEvent'.type = "pointermove" =>
       IF slider.isPressed
          /\ SliderValue(slider.direction, lastEvent'.clientX, lastEvent'.clientY,
                         slider'.baseRect) # slider.valuePercent
       THEN /\ fired' = 1
            /\ calls'[Len(calls')].cb = "onSlideCallback"
            /\ calls'[Len(calls')].args = <<slider'.valuePercent>>
            /\ slider'.valuePercent # slider.valuePercent
       ELSE /\ fired' = 0
            /\ slider' = slider

\* Two move-triggered onSlideCallback invocations with no other move-triggered
\* one between them carry different values, as claimed.
MovePayloadsAllDiffer ==
    \A i \in MoveSlideCalls, j \in MoveSlideCalls :
       (i < j /\ \A k \in MoveSlideCalls : ~(i < k /\ k < j))
          => calls[i].args # calls[j].args

\* C16 as stated: a move while pressed that maps to the stored value leaves
\* the state unchanged, and consecutive move-triggered payloads are never
\* equal.
C16_Original == [](MovePayloadsAllDiffer) /\ [][SliderMoveStepUnchanged]_vars

\* A step that delivers a pointer-move: while pressed and with a value other
\* than the stored one it stores and reports the value; otherwise it reports
\* nothing and leaves every field but the rectangle alone, which a pressed
\* move reads again and a move while not pressed does not.
SliderMoveStep ==
    lastEvent'.type = "pointermove" =>
       IF slider.isPressed
          /\ SliderValue(slider.direction, lastEvent'.clientX, lastEvent'.clientY,
                         slider'.baseRect) # slider.valuePercent
       THEN /\ fired' = 1
            /\ calls'[Len(calls')].cb = "onSlideCallback"
            /\ calls'[Len(calls')].args = <<slider'.valuePercent>>
            /\ slider'.valuePercent # slider.valuePercent
            /\ slider'.valuePercent =
                  SliderValue(slider.direction, lastEvent'.clientX, lastEvent'.clientY,
                              slider'.baseRect)
       ELSE /\ fired' = 0
            /\ \A f \in DOMAIN slider \ {"baseRect"} : slider'[f] = slider[f]
            /\ slider.isPressed => slider'.baseRect \in SliderRects
            /\ ~slider.isPressed => slider' = slider

\* Two move-triggered onSlideCallback invocations with no other move-triggered
\* one and no release between them carry different values.
MovePayloadsDiffer ==
    \A i \in MoveSlideCalls, j \in MoveSlideCalls :
       (/\ i < j
        /\ \A k \in MoveSlideCalls \cup ReleaseCalls : ~(i < k /\ k < j))
          => calls[i].args # calls[j].args

\* C16: a move while pressed invokes onSlideCallback only when its value
\* differs from the stored valuePercent; a move to the same value invokes
\* nothing and leaves the value and the pressed flag alone, but reads the
\* rectangle again; two move-triggered invocations with no release between
\* them never carry the same value, while after a release and a new press the
\* same value is reported again.
C16_OnChangeOnly == [](MovePayloadsDiffer) /\ [][SliderMoveStep]_vars

\* C16 witness: a press, a move that reported a value, a further move that
\* reported nothing, the release, a second press, and a move that reported the
\* same value again.
C16_Witness ==
    /\ lastEvent.type = "pointermove"
    /\ slider.isPressed
    /\ nEvents = 6
    /\ fired = 1
    /\ Len(calls) = 5
    /\ calls[1].by = "pointerdown"
    /\ calls[2].by = "pointermove"
    /\ calls[3].cb = "onReleaseCallback"
    /\ calls[4].by = "pointerdown"
    /\ calls[5].by = "pointermove"
    /\ calls[5].args = calls[2].args
    /\ calls[5].args = <<slider.valuePercent>>

\* A step that delivers a pointer-up or a pointer-cancel: valuePercent is 0
\* afterwards, and onReleaseCallback is invoked once if it was not 0 before
\* and not at all if it was.
SliderUpStep ==
    lastEvent'.type \in {"pointerup", "pointercancel"} =>
       /\ slider'.valuePercent = 0
       /\ ~slider'.isPressed
       /\ IF slider.valuePercent # 0
          THEN fired' = 1 /\ calls'[Len(calls')].cb = "onReleaseCallback"
          ELSE fired' = 0

\* C17: a release from a non-zero value leaves valuePercent = 0 and invokes
\* onReleaseCallback exactly once; a release at 0 invokes nothing.
C17_Retract == [][SliderUpStep]_vars

\* A press, a move to a non-zero value and a pointer-cancel, which invoked
\* onReleaseCallback and left the value 0.
C17_Witness ==
    /\ lastEvent.type = "pointercancel"
    /\ nEvents = 3
    /\ fired = 1
    /\ Len(calls) = 3
    /\ calls[2].args # <<0>>
    /\ calls[3].cb = "onReleaseCallback"
    /\ slider.valuePercent = 0
    /\ ~slider.isPressed

\* C18: after a pointer-down at the exact top edge of a vertical slider
\* valuePercent is 100 and onSlideCallback has reported 100.
C18_PressAtTop ==
    (/\ lastEvent.type = "pointerdown"
     /\ slider.direction = "vertical"
     /\ lastEvent.clientY = slider.baseRect.top)
       => (slider.valuePercent = 100 /\ fired = 1 /\ calls[Len(calls)].args = <<100>>)

\* A step that delivers a pointer-down: onSlideCallback is invoked once with
\* the value stored before, which stays the stored value.
SliderDownStep ==
    lastEvent'.type = "pointerdown" =>
       /\ fired' = 1
       /\ calls'[Len(calls')].cb = "onSlideCallback"
       /\ calls'[Len(calls')].args = <<slider.valuePercent>>
       /\ slider'.valuePercent = slider.valuePercent
       /\ slider'.isPressed

\* C19: every pointer-down invokes onSlideCallback exactly once with the value
\* stored before the press; the position of the press is not used and
\* valuePercent is unchanged.
C19_PressReportsStored == [][SliderDownStep]_vars

\* A pointer-down while the stored value is not 0, at a position of another
\* value: the stored value is reported and kept.
C19_Witness ==
    /\ lastEvent.type = "pointerdown"
    /\ fired = 1
    /\ slider.valuePercent # 0
    /\ calls[Len(calls)].args = <<slider.valuePercent>>
    /\ SliderValue(slider.direction, lastEvent.clientX, lastEvent.clientY, slider.baseRect)
          # slider.valuePercent

\* A step right after a pointer-down, by another pointer than the one that
\* pressed and is still down: its pointer-down or pointer-move changes nothing
\* and reports nothing.
SecondPointerStep ==
    (/\ lastEvent.type = "pointerdown"
     /\ lastEvent'.type \in {"pointerdown", "pointermove"}
     /\ lastEvent'.pointerId # lastEvent.pointerId)
       => (fired' = 0 /\ joystick' = joystick)

\* C20: while one pointer owns the interaction of a control, the events of a
\* second pointer do not drive it: its pointer-down is ignored (or takes over
\* only once the first pointer is released) and its moves report nothing.
C20_SinglePointer == [][SecondPointerStep]_vars

\* C21: when a release callback is invoked the control has already been reset.
\* On the d-pad onReleaseCallback is the last statement of onDpadUp, so the
\* state it sees is the state after the step: isPressed is false,
\* currentDirection is center and no pointer is tracked.
C21_ResetBeforeNotify ==
    (/\ lastEvent.type \in {"pointerup", "touchend"}
     /\ fired > 0
     /\ calls[Len(calls)].cb = "onReleaseCallback")
       => /\ ~dpad.isPressed
          /\ dpad.currentDirection = "center"
          /\ dpad.pointerId = -1

(***************************************************************************)
(* Two ButtonControllers mounted in the same container                     *)
(***************************************************************************)

\* onButtonDown() of the instance b, known as ctl in the log.
ButtonDownOf(b, ctl) ==
    IF b.isPressed THEN Result(b, <<>>)
    ELSE Result([b EXCEPT !.isPressed = TRUE],
                <<Call(ctl, "onPressCallback", b.onPressCallback, <<>>)>>)

\* onButtonUp() of the instance b, known as ctl in the log.
ButtonUpOf(b, ctl) ==
    IF ~b.isPressed THEN Result(b, <<>>)
    ELSE Result([b EXCEPT !.isPressed = FALSE],
                <<Call(ctl, "onReleaseCallback", b.onReleaseCallback, <<>>)>>)

\* Where in the container a pointer event happens: on the visual region of
\* the first button, on that of the second, or on neither.
ContainerTargets == {"button", "sibling", "container"}

\* A pointer event that bubbles to the container.
ContainerEvent(type, pointerId, target) ==
    [type |-> type, pointerId |-> pointerId, target |-> target]

\* One event dispatched in the container: init() of either instance has added
\* its listener to the container itself, so both listeners run, in the order
\* of construction.
ContainerDeliver(e, first, second) ==
    /\ nEvents < MaxEvents
    /\ lastEvent' = e
    /\ button' = first.ctl
    /\ sibling' = second.ctl
    /\ calls' = calls \o first.out \o second.out
    /\ fired' = Len(first.out) + Len(second.out)
    /\ nEvents' = nEvents + 1
    /\ UNCHANGED <<dpad, joystick, slider, probe>>

\* "pointerdown" in the container.
ContainerPointerDown ==
    \E p \in PointerIds, target \in ContainerTargets :
       ContainerDeliver(ContainerEvent("pointerdown", p, target),
                        ButtonDownOf(button, "button"), ButtonDownOf(sibling, "sibling"))

\* "pointerup" in the container.
ContainerPointerUp ==
    \E p \in PointerIds, target \in ContainerTargets :
       ContainerDeliver(ContainerEvent("pointerup", p, target),
                        ButtonUpOf(button, "button"), ButtonUpOf(sibling, "sibling"))

InitContainer ==
    /\ \E o1 \in ButtonOptionSet, o2 \in ButtonOptionSet :
          /\ button = ButtonController(o1)
          /\ sibling = ButtonController(o2)
    /\ dpad = Absent
    /\ joystick = Absent
    /\ slider = Absent
    /\ calls = <<>>
    /\ lastEvent = NoEvent
    /\ nEvents = 0
    /\ fired = 0
    /\ probe = NoProbe

NextContainer == ContainerPointerDown \/ ContainerPointerUp

SpecContainer == InitContainer /\ [][NextContainer]_vars

\* The invocations of the last step.
LastCalls == { i \in 1..Len(calls) : i > Len(calls) - fired }

\* C22: an event aimed at one control fires no callback on another control
\* mounted in the same container: after an event on the second button's
\* region every callback of the step is the second button's, and after an
\* event on the first button's region every callback is the first button's.
C22_Independence ==
    /\ lastEvent.type # "none" /\ lastEvent.target = "sibling"
          => \A i \in LastCalls : calls[i].ctl = "sibling"
    /\ lastEvent.type # "none" /\ lastEvent.target = "button"
          => \A i \in LastCalls : calls[i].ctl = "button"

(***************************************************************************)
(* Construction                                                            *)
(***************************************************************************)

\* The controls a host can construct.
ControlNames == {"button", "dpad", "joystick", "slider"}

\* The listeners init() adds, on the base, the container or the window.
ListenersOf(control) ==
    CASE control = "button" ->
            {"pointerup", "pointerdown", "touchstart", "touchmove", "touchend",
             "touchcancel", "selectstart", "contextmenu"}
      [] control = "dpad" ->
            {"pointerdown", "pointermove", "pointerup", "touchstart", "touchend"}
      [] control = "joystick" ->
            {"pointerup", "pointercancel", "pointerdown", "pointermove", "resize"}
      [] control = "slider" ->
            {"pointerup", "pointerdown", "pointermove", "pointercancel", "resize",
             "selectstart", "contextmenu", "touchstart"}

\* The outcome of a construction: whether it threw, the element the control
\* was mounted in, the listeners added, whether the base was appended to the
\* document, and whether init() wrote its first log line.
Outcome(thrown, container, listeners, appended, logged) ==
    [thrown |-> thrown, container |-> container, listeners |-> listeners,
     appended |-> appended, logged |-> logged]

\* A construction that adds its listeners before it looks at the container.
ConstructListenFirst(control, container, body, verboseLogging) ==
    LET mount == IF container = "element" THEN "element"
                 ELSE IF body = "body" THEN "body" ELSE "null"
    IN  IF mount = "null"
        THEN Outcome(TRUE, "null", ListenersOf(control), FALSE, verboseLogging)
        ELSE Outcome(FALSE, mount, ListenersOf(control), TRUE, verboseLogging)

\* new Control(options) with options.container an element ("element") or left
\* out ("missing"), in a document whose body exists ("body") or not yet
\* ("null").  The constructor takes options.container || document.body; init()
\* logs, throws if that is still nothing (the slider has no such test and
\* throws a TypeError from container.appendChild), then renders, appending the
\* base to the container, and adds the listeners.
Construct(control, container, body, verboseLogging) ==
    LET mount == IF container = "element" THEN "element"
                 ELSE IF body = "body" THEN "body" ELSE "null"
    IN  IF mount = "null"
        THEN Outcome(TRUE, "null", {}, FALSE, verboseLogging)
        ELSE Outcome(FALSE, mount, ListenersOf(control), TRUE, verboseLogging)

NoOutcome == Outcome(FALSE, "null", {}, FALSE, FALSE)

ConstructProbe(control, container, body, uid, verboseLogging) ==
    [fn |-> "Construct", control |-> control, container |-> container, body |-> body,
     uid |-> uid, verboseLogging |-> verboseLogging, done |-> FALSE, out |-> NoOutcome]

InitConstruct ==
    /\ \E c \in ControlNames, container \in {"element", "missing"}, body \in {"body", "null"},
          uid \in {"given", "generated"}, v \in BOOLEAN :
          probe = ConstructProbe(c, container, body, uid, v)
    /\ button = Absent
    /\ dpad = Absent
    /\ joystick = Absent
    /\ slider = Absent
    /\ sibling = Absent
    /\ calls = <<>>
    /\ lastEvent = NoEvent
    /\ nEvents = 0
    /\ fired = 0

\* The constructor runs.
ApplyConstruct ==
    /\ probe.fn = "Construct"
    /\ ~probe.done
    /\ probe' = [probe EXCEPT !.done = TRUE,
                              !.out = Construct(probe.control, probe.container, probe.body,
                                                probe.verboseLogging)]
    /\ UNCHANGED <<button, dpad, joystick, slider, sibling, calls, lastEvent, nEvents, fired>>

NextConstruct == ApplyConstruct

SpecConstruct == InitConstruct /\ [][NextConstruct]_vars

\* C23 as stated: a construction whose options name no mounting region fails
\* at once: it throws, no listener has been added and nothing has been
\* appended to the document.
C23_FailsWithoutContainer ==
    (probe.done /\ probe.container = "missing")
       => /\ probe.out.thrown
          /\ probe.out.listeners = {}
          /\ ~probe.out.appended

\* C23: a construction fails at once, with no listener added and nothing
\* appended, exactly when there is neither a container option nor a document
\* body; a missing container option alone mounts the control on the body.
C23_FailsWithoutMount ==
    probe.done =>
       /\ (probe.container = "missing" /\ probe.body = "null")
             => /\ probe.out.thrown
                /\ probe.out.listeners = {}
                /\ ~probe.out.appended
       /\ (probe.container = "missing" /\ probe.body = "body")
             => /\ ~probe.out.thrown
                /\ probe.out.container = "body"
                /\ probe.out.appended
                /\ probe.out.listeners = ListenersOf(probe.control)
       /\ probe.container = "element"
             => /\ ~probe.out.thrown
                /\ probe.out.container = "element"

C23_Witness ==
    /\ probe.done
    /\ probe.container = "missing"
    /\ probe.body = "null"
    /\ probe.control = "slider"
    /\ probe.out.thrown

(***************************************************************************)
(* Claims on releases, cancels and layout reads                            *)
(***************************************************************************)

\* C24: while the button is pressed, a pointer-up received anywhere in the
\* container, also outside the button's own region and from any pointer,
\* releases the button and fires onRelease once; after a pointer-up the button
\* is never left pressed.
C24_ReleaseAnywhere ==
    /\ [](lastEvent.type = "pointerup" /\ button # Absent => ~button.isPressed)
    /\ [][ (/\ button # Absent
            /\ button.isPressed
            /\ lastEvent'.type = "pointerup"
            /\ ~lastEvent'.onBase)
           => /\ ~button'.isPressed
              /\ fired' = 1
              /\ calls' = Append(calls, Call("button", "onReleaseCallback",
                                              button.onReleaseCallback, <<>>))
       ]_vars

\* C24 witness: the button was pressed on its own region and the pointer-up
\* outside that region has released it and fired onRelease.
C24_Witness ==
    /\ button # Absent
    /\ lastEvent.type = "pointerup"
    /\ ~lastEvent.onBase
    /\ nEvents = 2
    /\ fired = 1
    /\ ~button.isPressed
    /\ calls[Len(calls)].cb = "onReleaseCallback"

\* C25: a pointer-cancel of the owning pointer, delivered while the d-pad is
\* pressed, ends the interaction as a pointer-up does: the d-pad is not
\* pressed afterwards.
C25_CancelEndsDrag ==
    [][ (/\ dpad.isPressed
         /\ lastEvent'.type = "pointercancel"
         /\ lastEvent'.pointerId = dpad.pointerId)
           => ~dpad'.isPressed
      ]_vars

\* C26: handling a pointer-move during a drag performs no layout read: the
\* rectangle the slider holds after the move is the one it had cached before.
C26_CachedRectangle ==
    [][ (slider.isPressed /\ lastEvent'.type = "pointermove")
           => slider'.baseRect = slider.baseRect
      ]_vars

\* The direction the probe's position reads on the same d-pad without a
\* rotation.
ProbeUnrotated ==
    DirectionAt(DpadUpdateContainerRectangle(
                   DpadController([onPressCallback |-> "none", onReleaseCallback |-> "none",
                                   centerRadiusThreshold |-> probe.centerRadiusThreshold,
                                   keyRepeat |-> FALSE, rotate |-> 0]),
                   probe.rect),
                probe)

\* With rotate = 90 a position on an axis reads the direction a quarter turn
\* on: screen-right reads "up", screen-down "right", screen-left "down" and
\* screen-up "left".
QuarterTurn ==
    (probe.fn = "ComputeDirection" /\ probe.out # "unset" /\ probe.rotate = 90
        /\ probe.out # "center") =>
       /\ (ProbeDy2 = 0 /\ ProbeDx2 > 0) => probe.out = "up"
       /\ (ProbeDx2 = 0 /\ ProbeDy2 > 0) => probe.out = "right"
       /\ (ProbeDy2 = 0 /\ ProbeDx2 < 0) => probe.out = "down"
       /\ (ProbeDx2 = 0 /\ ProbeDy2 < 0) => probe.out = "left"

\* C27: the d-pad reads the displacement rotated through -rotate degrees: a
\* pointer to the screen-right of the center reads "up" with rotate = 90, and
\* the rotation preserves distance, so whether a position reads "center" does
\* not depend on rotate.
C27_InverseRotation ==
    /\ QuarterTurn
    /\ (probe.fn = "ComputeDirection" /\ probe.out # "unset") =>
          (probe.out = "center" <=> ProbeUnrotated = "center")

(***************************************************************************)
(* Two DpadControllers that differ in uid and verboseLogging               *)
(***************************************************************************)

\* constructor, with the identity and the logging flag of the options kept in
\* the instance, and the number of lines the instance has written to the
\* console: init() logs "Init", which is one line with verboseLogging.
DpadWithIdentity(options, uid, verboseLogging) ==
    DpadController(options)
       @@ [uid |-> uid, verboseLogging |-> verboseLogging,
           logLines |-> IF verboseLogging THEN 1 ELSE 0]

\* The console lines the handling of event e writes, r being the handler's
\* result on the state d.  updateDpadUI() prints the direction on every change
\* of direction in onDpadMove, with or without verboseLogging; the handler's
\* own log() calls and the lines of the default callbacks are written only
\* with verboseLogging.
DpadLogLines(d, e, r) ==
    LET changed == IF /\ e.type \in {"pointerdown", "touchstart", "pointermove"}
                      /\ r.ctl.currentDirection # d.currentDirection
                   THEN 1 ELSE 0
        defaults == Cardinality({i \in DOMAIN r.out : r.out[i].fn = "default"})
        own == CASE e.type \in {"pointerdown", "touchstart"} -> 1 + changed
                 [] e.type = "pointermove" -> changed
                 [] e.type \in {"pointerup", "touchend"} ->
                       1 + (IF \/ ("pointerId" \in DOMAIN e /\ e.pointerId = d.pointerId)
                               \/ e.kind = "TouchEvent"
                            THEN 1 ELSE 0)
                 [] OTHER -> 0
    IN  changed + (IF d.verboseLogging THEN own + defaults ELSE 0)

\* console.log(): the handler's result with the lines written added.
DpadLogged(d, e, r) ==
    Result([r.ctl EXCEPT !.logLines = @ + DpadLogLines(d, e, r)], r.out)

\* The callbacks of the second instance, told apart in the log.
OfSibling(out) == [i \in DOMAIN out |-> [out[i] EXCEPT !.ctl = "sibling"]]

\* One event sequence delivered to both instances.
TwinDeliver(e, first, second) ==
    /\ nEvents < MaxEvents
    /\ lastEvent' = e
    /\ dpad' = DpadLogged(dpad, e, first).ctl
    /\ sibling' = DpadLogged(sibling, e, second).ctl
    /\ calls' = calls \o first.out \o OfSibling(second.out)
    /\ fired' = Len(first.out) + Len(second.out)
    /\ nEvents' = nEvents + 1
    /\ UNCHANGED <<button, joystick, slider, probe>>

TwinPointerDown ==
    \E p \in PointerIds, pos \in DpadPoints, rect \in DpadRects :
       LET e == PointerEvent("pointerdown", p, pos)
       IN  TwinDeliver(e, onDpadDown(dpad, e, rect), onDpadDown(sibling, e, rect))

TwinPointerMove ==
    \E p \in PointerIds, pos \in DpadPoints :
       LET e == PointerEvent("pointermove", p, pos)
       IN  TwinDeliver(e, onDpadMove(dpad, e), onDpadMove(sibling, e))

TwinPointerUp ==
    \E p \in PointerIds, pos \in DpadPoints :
       LET e == PointerEvent("pointerup", p, pos)
       IN  TwinDeliver(e, onDpadUp(dpad, e), onDpadUp(sibling, e))

TwinTouchStart ==
    \E t \in TouchIds, pos \in DpadPoints, rect \in DpadRects :
       LET e == TouchEvent("touchstart", t, pos)
       IN  TwinDeliver(e, onDpadDown(dpad, e, rect), onDpadDown(sibling, e, rect))

TwinTouchEnd ==
    \E t \in TouchIds, pos \in DpadPoints :
       LET e == TouchEvent("touchend", t, pos)
       IN  TwinDeliver(e, onDpadUp(dpad, e), onDpadUp(sibling, e))

InitTwins ==
    /\ \E o \in DpadOptionSet, v \in BOOLEAN, w \in BOOLEAN :
          /\ dpad = DpadWithIdentity(o, "a", v)
          /\ sibling = DpadWithIdentity(o, "b", w)
    /\ button = Absent
    /\ joystick = Absent
    /\ slider = Absent
    /\ calls = <<>>
    /\ lastEvent = NoEvent
    /\ nEvents = 0
    /\ fired = 0
    /\ probe = NoProbe

NextTwins ==
    \/ TwinPointerDown
    \/ TwinPointerMove
    \/ TwinPointerUp
    \/ TwinTouchStart
    \/ TwinTouchEnd

SpecTwins == InitTwins /\ [][NextTwins]_vars

\* The control state of an instance: every field but its identity, its
\* logging flag and its console output.
ControlState(d) ==
    [f \in DOMAIN d \ {"uid", "verboseLogging", "logLines"} |-> d[f]]

\* The callbacks instance ctl has invoked, in order: field, function, payload.
CallbacksOf(ctl) ==
    LET Mine(c) == c.ctl = ctl
        mine == SelectSeq(calls, Mine)
    IN  [i \in DOMAIN mine |-> <<mine[i].cb, mine[i].fn, mine[i].args>>]

\* The press callbacks instance ctl has invoked: one per change of direction
\* in onDpadMove.
PressesOf(ctl) ==
    Cardinality({i \in DOMAIN calls : calls[i].ctl = ctl /\ calls[i].cb = "onPressCallback"})

\* C28: two d-pads constructed from the same options but for uid and
\* verboseLogging, and given the same events, are in the same control state
\* and have invoked the same callbacks with the same payloads in the same
\* order; they differ only in the lines written, an instance without
\* verboseLogging having written the one line of updateDpadUI() per change of
\* direction and an instance with verboseLogging more than that.
C28_NonInterference ==
    /\ ControlState(dpad) = ControlState(sibling)
    /\ CallbacksOf("dpad") = CallbacksOf("sibling")
    /\ ~dpad.verboseLogging => dpad.logLines = PressesOf("dpad")
    /\ ~sibling.verboseLogging => sibling.logLines = PressesOf("sibling")
    /\ dpad.verboseLogging => dpad.logLines > PressesOf("dpad")
    /\ sibling.verboseLogging => sibling.logLines > PressesOf("sibling")

\* C28 witness: after a press, a move to another direction and the release,
\* the instances differ in uid, in the flag and in the lines written, and
\* the user's press callback was invoked.
C28_Witness ==
    /\ sibling # Absent
    /\ dpad # Absent
    /\ nEvents = 3
    /\ lastEvent.type = "pointerup"
    /\ dpad.uid # sibling.uid
    /\ ~dpad.verboseLogging
    /\ sibling.verboseLogging
    /\ sibling.logLines > dpad.logLines
    /\ Len(CallbacksOf("dpad")) = 3
    /\ ~dpad.isPressed

(***************************************************************************)
(* RetrackableSlider on a base of zero size                                *)
(***************************************************************************)

\* Rectangles of a base that is laid out with no height, no width or neither.
ZeroRects ==
    { [left |-> 10, top |-> 20, width |-> 20, height |-> 0],
      [left |-> 10, top |-> 20, width |-> 0, height |-> 200],
      [left |-> 10, top |-> 20, width |-> 0, height |-> 0] }

\* Positions on the rectangles' corner (10, 20), on the line of their top
\* edge, on the line of their left edge, and off both to either side.
ZeroPoints == { <<10, 20>>, <<15, 20>>, <<10, 50>>, <<5, 10>>, <<15, 30>> }

ZeroPointerDown ==
    \E p \in PointerIds, pos \in ZeroPoints, rect \in ZeroRects :
       LET e == PointerEvent("pointerdown", p, pos)
       IN  SliderDeliver(e, onSliderDown(slider, e, rect))

ZeroPointerMove ==
    \E p \in PointerIds, pos \in ZeroPoints, rect \in ZeroRects :
       LET e == PointerEvent("pointermove", p, pos)
       IN  SliderDeliver(e, onSliderMove(slider, e, rect))

ZeroPointerUp ==
    \E p \in PointerIds :
       LET e == [type |-> "pointerup", pointerId |-> p]
       IN  SliderDeliver(e, onSliderUp(slider, e))

NextZeroSize == ZeroPointerDown \/ ZeroPointerMove \/ ZeroPointerUp

SpecZeroSize == InitSlider /\ [][NextZeroSize]_vars

\* C29 as stated: on a slider whose rectangle has no length along its axis, a
\* move while pressed reads NaN.
C29_ZeroSizeIsNaN ==
    (lastEvent.type = "pointermove" /\ slider.isPressed /\ AxisLength = 0)
       => slider.valuePercent = NaN

\* C29: on a slider whose rectangle has no length along its axis nothing is
\* rejected; a move while pressed to the coordinate of the rectangle's origin
\* reads NaN and reports it, also when NaN is already stored; a move to any
\* other coordinate reads 0 or 100, the clamped infinity.
C29_ZeroSize ==
    (lastEvent.type = "pointermove" /\ slider.isPressed /\ AxisLength = 0) =>
       /\ LastOffset = 0 =>
             /\ slider.valuePercent = NaN
             /\ fired = 1
             /\ calls[Len(calls)].cb = "onSlideCallback"
             /\ calls[Len(calls)].args = <<NaN>>
       /\ LastOffset > 0 =>
             slider.valuePercent = (IF slider.direction = "vertical" THEN 0 ELSE 100)
       /\ LastOffset < 0 =>
             slider.valuePercent = (IF slider.direction = "vertical" THEN 100 ELSE 0)

\* C29 witness: a vertical slider of height 0, pressed, has handled two moves
\* to the height of its top edge and reported NaN for each.
C29_Witness ==
    /\ lastEvent.type = "pointermove"
    /\ slider.isPressed
    /\ slider.direction = "vertical"
    /\ AxisLength = 0
    /\ LastOffset = 0
    /\ slider.valuePercent = NaN
    /\ nEvents = 3
    /\ Len(calls) = 3
    /\ calls[2].args = <<NaN>>
    /\ calls[3].args = <<NaN>>

(***************************************************************************)
(* A d-pad, a joystick and a slider on one page                            *)
(***************************************************************************)

ControlsTargets == {"dpad", "joystick", "slider"}

\* The rectangle of each control's base and the client positions of the
\* events: the center of the d-pad, a point of its sector "right" that is on
\* the joystick's disc, and the middle of the slider.
ControlsRect(target) ==
    CASE target = "dpad" -> [left |-> 0, top |-> 0, width |-> 80, height |-> 80]
      [] target = "joystick" -> [left |-> 0, top |-> 0, width |-> 100, height |-> 100]
      [] target = "slider" -> [left |-> 10, top |-> 20, width |-> 20, height |-> 200]
ControlsPoints == { <<40, 40>>, <<70, 30>>, <<20, 120>> }

\* A pointer event dispatched on the base of the control target.
ControlsEvent(type, pointerId, pos, target) ==
    PointerEvent(type, pointerId, pos) @@ [target |-> target]

\* "pointerdown" on one of the bases.
ControlsPointerDown ==
    \E p \in PointerIds, pos \in ControlsPoints, target \in ControlsTargets :
       LET e == ControlsEvent("pointerdown", p, pos, target)
           rect == ControlsRect(target)
       IN  CASE target = "dpad" -> DpadDeliver(e, onDpadDown(dpad, e, rect))
             [] target = "joystick" -> JoyDeliver(e, onJoysickDown(joystick, e, rect))
             [] target = "slider" -> SliderDeliver(e, onSliderDown(slider, e, rect))

\* "pointermove" on one of the bases.
ControlsPointerMove ==
    \E p \in PointerIds, pos \in ControlsPoints, target \in ControlsTargets :
       LET e == ControlsEvent("pointermove", p, pos, target)
       IN  CASE target = "dpad" -> DpadDeliver(e, onDpadMove(dpad, e))
             [] target = "joystick" -> JoyDeliver(e, onJoysickMove(joystick, e))
             [] target = "slider" ->
                   SliderDeliver(e, onSliderMove(slider, e, ControlsRect(target)))

\* "pointerup" on one of the bases.
ControlsPointerUp ==
    \E p \in PointerIds, pos \in ControlsPoints, target \in ControlsTargets :
       LET e == ControlsEvent("pointerup", p, pos, target)
       IN  CASE target = "dpad" -> DpadDeliver(e, onDpadUp(dpad, e))
             [] target = "joystick" -> JoyDeliver(e, onJoysickUp(joystick, e))
             [] target = "slider" -> SliderDeliver(e, onSliderUp(slider, e))

\* "pointercancel" on one of the bases; the d-pad has no listener for it.
ControlsPointerCancel ==
    \E p \in PointerIds, pos \in ControlsPoints, target \in ControlsTargets :
       LET e == ControlsEvent("pointercancel", p, pos, target)
       IN  CASE target = "dpad" -> DpadDeliver(e, Result(dpad, <<>>))
             [] target = "joystick" -> JoyDeliver(e, onJoysickUp(joystick, e))
             [] target = "slider" -> SliderDeliver(e, onSliderUp(slider, e))

\* window "resize": one dispatch runs the listener of the joystick and the
\* listener of the slider, and each reads its rectangle again; the d-pad has
\* no listener for it.
ControlsResize ==
    LET e == [type |-> "resize", target |-> "window"]
    IN  /\ nEvents < MaxEvents
        /\ lastEvent' = e
        /\ joystick' = JoyUpdateContainerRectangle(joystick, ControlsRect("joystick"))
        /\ slider' = SliderUpdateContainerRectangle(slider, ControlsRect("slider"))
        /\ fired' = 0
        /\ nEvents' = nEvents + 1
        /\ UNCHANGED <<button, dpad, sibling, calls, probe>>

InitControls ==
    /\ dpad = DpadController([onPressCallback |-> "user", onReleaseCallback |-> "user",
                              centerRadiusThreshold |-> <<>>, keyRepeat |-> FALSE,
                              rotate |-> 0])
    /\ joystick = JoysickController([onInputCallback |-> "user", radius |-> ReadmeRadius,
                                     rotate |-> 0],
                                    ControlsRect("joystick"))
    /\ \E o \in SliderOptionSet : slider = RetrackableSlider(o)
    /\ button = Absent
    /\ sibling = Absent
    /\ calls = <<>>
    /\ lastEvent = NoEvent
    /\ nEvents = 0
    /\ fired = 0
    /\ probe = NoProbe

NextControls ==
    \/ ControlsPointerDown
    \/ ControlsPointerMove
    \/ ControlsPointerUp
    \/ ControlsPointerCancel
    \/ ControlsResize

SpecControls == InitControls /\ [][NextControls]_vars

\* C30: on the d-pad, the joystick and the slider, a pointer-move received
\* while the control's isPressed is false changes nothing of the control
\* (direction, value, pressed flag, tracked pointer, rectangle) and invokes no
\* callback.
C30_IdleMovesInert ==
    [][ lastEvent'.type = "pointermove" =>
          /\ (lastEvent'.target = "dpad" /\ ~dpad.isPressed)
                => (dpad' = dpad /\ calls' = calls /\ fired' = 0)
          /\ (lastEvent'.target = "joystick" /\ ~joystick.isPressed)
                => (joystick' = joystick /\ calls' = calls /\ fired' = 0)
          /\ (lastEvent'.target = "slider" /\ ~slider.isPressed)
                => (slider' = slider /\ calls' = calls /\ fired' = 0)
      ]_vars

\* C30 witness: the joystick was pressed and released, which reported one
\* input, and the move it then received away from its center reported
\* nothing and left it released.
C30_Witness ==
    /\ nEvents = 3
    /\ lastEvent.type = "pointermove"
    /\ lastEvent.target = "joystick"
    /\ lastEvent.clientX = 70
    /\ ~joystick.isPressed
    /\ fired = 0
    /\ Len(calls) = 1
    /\ calls[1].ctl = "joystick"

(***************************************************************************)
(* Claims on pointers, rest states and payloads                            *)
(***************************************************************************)

\* C31: the d-pad's pressed flag and its tracked pointer agree: isPressed is
\* true exactly when pointerId is not -1, and once the d-pad has handled a
\* pointer-up or a touch-end it is not pressed.
C31_PressedIffTracked ==
    /\ dpad.isPressed <=> dpad.pointerId # -1
    /\ lastEvent.type = "touchend" => ~dpad.isPressed

\* C32: while a pointer is tracked, a pointer-up of another pointer leaves
\* the d-pad's isPressed, pointerId and currentDirection as they are and
\* invokes no release callback.
C32_ForeignRelease ==
    [][ (/\ dpad.isPressed
         /\ dpad.pointerId # -1
         /\ lastEvent'.type = "pointerup"
         /\ lastEvent'.pointerId # dpad.pointerId)
           => /\ dpad'.isPressed = dpad.isPressed
              /\ dpad'.pointerId = dpad.pointerId
              /\ dpad'.currentDirection = dpad.currentDirection
              /\ fired' = 0
      ]_vars

\* C33: a joystick or a slider that pointer A has just pressed stays as it
\* is, and invokes nothing, when the pointer-up of another pointer B reaches
\* its listener.
C33_OwnPointerOnly ==
    [][ (/\ lastEvent.type = "pointerdown"
         /\ lastEvent'.type = "pointerup"
         /\ lastEvent'.target = lastEvent.target
         /\ lastEvent'.target \in {"joystick", "slider"}
         /\ lastEvent'.pointerId # lastEvent.pointerId)
           => /\ joystick' = joystick
              /\ slider' = slider
              /\ fired' = 0
      ]_vars

\* A pointer-down on a slider that is not pressed reports the value 0.
RestPressReportsZero ==
    (lastEvent'.type = "pointerdown" /\ lastEvent'.target = "slider" /\ ~slider.isPressed)
       => /\ fired' = 1
          /\ calls'[Len(calls')].cb = "onSlideCallback"
          /\ calls'[Len(calls')].args = <<0>>

\* C34: in every reachable state a slider that is not pressed has
\* valuePercent = 0 and a d-pad that is not pressed has currentDirection =
\* center; so a pointer-down on a slider at rest reports onSlide(0).
C34_RestState ==
    /\ [](/\ ~slider.isPressed => slider.valuePercent = 0
          /\ ~dpad.isPressed => dpad.currentDirection = "center")
    /\ [][RestPressReportsZero]_vars

\* C34 witness: the slider was pressed, dragged to a value other than 0 and
\* released: it is at rest with the value 0 again.
C34_Witness ==
    /\ nEvents = 3
    /\ lastEvent.type = "pointerup"
    /\ lastEvent.target = "slider"
    /\ ~slider.isPressed
    /\ slider.valuePercent = 0
    /\ Len(calls) = 3
    /\ calls[2].cb = "onSlideCallback"
    /\ calls[2].args # <<0>>
    /\ calls[3].cb = "onReleaseCallback"

\* The position an event carries: that of its first touch for a touch event.
EventPoint(e) == IF e.kind = "TouchEvent" THEN e.touches[1] ELSE e

\* A move while pressed from a sector into the dead zone invokes the press
\* callback once with "center", and a further move within the dead zone
\* invokes nothing.
IntoDeadZoneStep ==
    (/\ lastEvent'.type = "pointermove"
     /\ dpad.isPressed
     /\ DirectionAt(dpad, lastEvent') = "center")
       => /\ dpad'.currentDirection = "center"
          /\ dpad.currentDirection # "center"
                => (fired' = 1 /\ calls' = Append(calls, PressCall(dpad, "center")))
          /\ dpad.currentDirection = "center" => (fired' = 0 /\ calls' = calls)

\* A press from rest invokes nothing if it lands in the dead zone and the
\* press callback with the direction otherwise.
PressFromRestStep ==
    (/\ lastEvent'.type \in {"pointerdown", "touchstart"}
     /\ ~dpad.isPressed)
       => LET direction == DirectionAt(dpad', EventPoint(lastEvent'))
          IN  /\ dpad'.isPressed
              /\ dpad'.currentDirection = direction
              /\ direction = "center" => (fired' = 0 /\ calls' = calls)
              /\ direction # "center"
                    => (fired' = 1 /\ calls' = Append(calls, PressCall(dpad, direction)))

\* C35: while the d-pad is pressed, a move from a sector back into the dead
\* zone invokes the press callback, not the release callback, exactly once
\* with "center"; a press from rest inside the dead zone invokes nothing and
\* one outside it invokes the press callback at once with its direction.
C35_CenterIsAPress == [][IntoDeadZoneStep /\ PressFromRestStep]_vars

\* C35 witness: pressed on a sector, the pointer has moved into the dead zone
\* and the press callback was invoked with "center"; no release was reported.
C35_Witness ==
    /\ nEvents = 2
    /\ lastEvent.type = "pointermove"
    /\ dpad.isPressed
    /\ dpad.currentDirection = "center"
    /\ fired = 1
    /\ Len(calls) = 2
    /\ calls[1].cb = "onPressCallback"
    /\ calls[1].args # <<"center">>
    /\ calls[2].cb = "onPressCallback"
    /\ calls[2].args = <<"center">>

\* C36: every invocation of the d-pad's release callback carries the payload
\* "center", never the direction that was held.
C36_ReleasePayload ==
    \A i \in DOMAIN calls :
       (calls[i].ctl = "dpad" /\ calls[i].cb = "onReleaseCallback")
          => calls[i].args = <<"center">>

\* C36 witness: the direction "up" was held and its release was reported
\* with "center".
C36_Witness ==
    /\ lastEvent.type \in {"pointerup", "touchend"}
    /\ fired = 1
    /\ Len(calls) >= 2
    /\ calls[Len(calls) - 1].cb = "onPressCallback"
    /\ calls[Len(calls) - 1].args = <<"up">>
    /\ calls[Len(calls)].cb = "onReleaseCallback"
    /\ calls[Len(calls)].args = <<"center">>

(***************************************************************************)
(* The vertical conventions of the joystick and the d-pad                  *)
(***************************************************************************)

\* The radii of the joysticks probed: the README's, and one whose
\* thumbMaxDistance (400) is so large that a displacement of one pixel is less
\* than half a hundredth of it.
SignRadii == {ReadmeRadius, 1000}

\* The base both controls are given: the joystick's base is rendered radius
\* pixels wide and high.
SignRect(radius) == [left |-> 0, top |-> 0, width |-> radius, height |-> radius]

\* The displacements probed, in pixels from the center of the base: the center,
\* one and two pixels and more to either side of it, and positions beyond the
\* disc of the smaller joystick.
SignDxs == {-150, -40, -1, 0, 1, 40, 150, 200}
SignDys == {-100, -40, -20, -2, -1, 0, 1, 2, 40, 100}

SignProbe(radius, dx, dy) ==
    [fn |-> "VerticalSign", radius |-> radius, rect |-> SignRect(radius),
     clientX |-> radius \div 2 + dx, clientY |-> radius \div 2 + dy,
     done |-> FALSE, joystick |-> <<0, 0>>, dpad |-> "center"]

InitSign ==
    /\ \E radius \in SignRadii, dx \in SignDxs, dy \in SignDys :
          probe = SignProbe(radius, dx, dy)
    /\ button = Absent
    /\ dpad = Absent
    /\ joystick = Absent
    /\ slider = Absent
    /\ sibling = Absent
    /\ calls = <<>>
    /\ lastEvent = NoEvent
    /\ nEvents = 0
    /\ fired = 0

\* An unrotated joystick of the radius and an unrotated d-pad with the default
\* dead zone, both on the base, compute their outputs for the position.
ApplySign ==
    /\ probe.fn = "VerticalSign"
    /\ ~probe.done
    /\ LET j == JoysickController([onInputCallback |-> "user", radius |-> probe.radius,
                                    rotate |-> 0], probe.rect)
           d == DpadUpdateContainerRectangle(
                   DpadController([onPressCallback |-> "user", onReleaseCallback |-> "user",
                                   centerRadiusThreshold |-> <<>>, keyRepeat |-> FALSE,
                                   rotate |-> 0]),
                   probe.rect)
       IN  probe' = [probe EXCEPT
                        !.done = TRUE,
                        !.joystick = JoyOutput(probe.clientX, probe.clientY, j.baseRect,
                                               j.rotate, j.thumbMaxDistance),
                        !.dpad = DirectionAt(d, probe)]
    /\ UNCHANGED <<button, dpad, joystick, slider, sibling, calls, lastEvent, nEvents, fired>>

NextSign == ApplySign

SpecSign == InitSign /\ [][NextSign]_vars

\* C37 as stated: the sign of the reported y is the sign of pointerY - centerY.
C37_SignOfY ==
    probe.done => Sign(probe.joystick[2]) = Sign(ProbeDy2)

\* Three times the thumbMaxDistance of the probe's joystick.
SignThumbMaxDistance3 == 2 * (probe.radius - ThumbOffsetWidth(probe.radius))

\* The vertical part of the displacement the joystick reports, in units of
\* thumbMaxDistance, against half a hundredth (0.005): |dy| / thumbMaxDistance
\* within the disc, |dy| / distance beyond it, where the displacement is
\* scaled to the disc first.
SignShareAbove ==
    IF BeyondMaxDistance(ProbeDx2, ProbeDy2, SignThumbMaxDistance3)
    THEN (200 * ProbeDy2) * (200 * ProbeDy2) > ProbeDx2 * ProbeDx2 + ProbeDy2 * ProbeDy2
    ELSE 300 * Abs(ProbeDy2) > SignThumbMaxDistance3
SignShareBelow ==
    IF BeyondMaxDistance(ProbeDx2, ProbeDy2, SignThumbMaxDistance3)
    THEN (200 * ProbeDy2) * (200 * ProbeDy2) < ProbeDx2 * ProbeDx2 + ProbeDy2 * ProbeDy2
    ELSE 300 * Abs(ProbeDy2) < SignThumbMaxDistance3

\* C37: with rotate = 0 the joystick's y follows the screen: it is never
\* negative below the center and never positive above it.  The output is
\* rounded to hundredths: y has the sign of pointerY - centerY when the
\* vertical part of the reported displacement is more than 0.005 of
\* thumbMaxDistance, and is 0 when it is less, be it for a pointer almost
\* level with the center or for one at a flat angle beyond the disc.  The
\* d-pad reads a pointer straight above the center as "up" and one straight
\* below as "down".
C37_ScreenConvention ==
    probe.done =>
       /\ ProbeDy2 > 0 => probe.joystick[2] >= 0
       /\ ProbeDy2 < 0 => probe.joystick[2] <= 0
       /\ ProbeDy2 = 0 => probe.joystick[2] = 0
       /\ SignShareAbove => Sign(probe.joystick[2]) = Sign(ProbeDy2)
       /\ SignShareBelow => probe.joystick[2] = 0
       /\ (ProbeDx2 = 0 /\ ProbeDy2 < 0 /\ probe.dpad # "center") => probe.dpad = "up"
       /\ (ProbeDx2 = 0 /\ ProbeDy2 > 0 /\ probe.dpad # "center") => probe.dpad = "down"

\* C37 witness: for a pointer straight above the center the joystick has
\* reported a negative y and the d-pad reads "up".
C37_Witness ==
    /\ probe.fn = "VerticalSign"
    /\ probe.done
    /\ ProbeDx2 = 0
    /\ ProbeDy2 < 0
    /\ probe.joystick[1] = 0
    /\ probe.joystick[2] < 0
    /\ probe.dpad = "up"

\* The control's rectangle has been read from the layout.
RectIsSet(ctl) == "left" \in DOMAIN ctl.baseRect

\* C38: in every reachable state of the d-pad, the joystick and the slider,
\* a pressed control has its baseRect set, so no move handler reads an
\* undefined rectangle, whatever the order of down, move, up, cancel and
\* resize events.
C38_RectDefinedWhenPressed ==
    /\ dpad.isPressed => RectIsSet(dpad)
    /\ joystick.isPressed => RectIsSet(joystick)
    /\ slider.isPressed => RectIsSet(slider)
    /\ RectIsSet(joystick)

\* C38 witness: a move has reached the pressed slider, whose rectangle was
\* read at its press, while the d-pad, never pressed, has none yet.
C38_Witness ==
    /\ lastEvent.type = "pointermove"
    /\ lastEvent.target = "slider"
    /\ slider.isPressed
    /\ RectIsSet(slider)
    /\ slider.valuePercent # 0
    /\ ~dpad.isPressed
    /\ ~RectIsSet(dpad)

====
